---- MODULE Spec2Model ----
(***************************************************************************)
(* Team roster front-end: the session provider, the live collection        *)
(* caches and the dashboards' mutation actions, modelled as state          *)
(* machines over the external document store.                              *)
(***************************************************************************)
EXTENDS Integers, Sequences, FiniteSets, TLC

VARIABLES
    users,            \* the store's users collection: a function id -> document
    isAuthReady,      \* FirebaseProvider state
    currentUser,      \* FirebaseProvider state (NoUser when null)
    authUid,          \* the identity provider's signed-in user id (NoId when none)
    lastNotified,     \* the id the identity provider last notified its observers of
    initialDelivered, \* the observer has received the initial session state
    signInPc,         \* initializeAuth's awaited sign-in: pending, ok, failed
    callbacks,        \* the observer's invocations, in arrival order
    remoteEdits,      \* writes other sessions made to the users collection
    inflight,         \* writes sent to the store whose promise is still pending
    budget,           \* user gestures left in this run
    cache,            \* per dashboard session: useUsers' users, as a function id -> document
    sra,              \* per manager session: the state of its SRAssignment component
    skills,           \* the store's skills collection: a function id -> document
    skillCache,       \* the admin session's useSkills' skills
    ev,               \* the engineer session's EngineerView state
    mvm,              \* per manager session: its ManagerVacationManagement state
    um,               \* the admin session's UserManagement and form state
    sm,               \* the admin session's SkillManagement state
    trip,             \* history: the last vacation write the store applied to the engineer
    hooks,            \* the App's useUsers and useSkills state: records, loading, error
    subs,             \* the App's two collection subscriptions, as the store sees them
    provider          \* FirebaseProvider's effect: its runs and the observers it registered

sessVars == <<isAuthReady, currentUser, authUid, lastNotified, initialDelivered,
              signInPc, callbacks, remoteEdits, provider>>

\* the components' own state
compVars == <<sra, ev, mvm, um, sm>>

exceptSra == <<ev, mvm, um, sm>>
exceptEv == <<sra, mvm, um, sm>>
exceptMvm == <<sra, ev, um, sm>>
exceptUm == <<sra, ev, mvm, sm>>
exceptSm == <<sra, ev, mvm, um>>

dashVars == <<inflight, budget, cache, skillCache, compVars, trip>>

\* the App's collection caches and their subscriptions
appVars == <<hooks, subs>>

vars == <<users, skills, sessVars, appVars, dashVars>>

----------------------------------------------------------------------------
(* Bounds *)

MaxEvents == 3
MaxRemoteEdits == 1
MaxThreshold == 1
BudgetSR == 5
MaxDate == 3
BudgetEng == 7
BudgetVac == 5
BudgetDash == 4
BudgetCache == 2
MaxUsers == 3
BudgetRoute == 3

----------------------------------------------------------------------------
(* Data model *)

NoId == "null"

\* the state of a component no session of the run has mounted
Unmounted == <<>>

\* no vacation write has been applied yet
NoTrip == [active |-> FALSE]

\* useState initial values of useUsers and useSkills
HooksInit ==
    [users |-> <<>>, usersLoading |-> TRUE, usersError |-> NoId,
     skills |-> <<>>, skillsLoading |-> TRUE, skillsError |-> NoId]

\* a subscription as created by onSnapshot: the user id the effect ran with,
\* whether the listener is attached, the last snapshot delivered to the hook
\* and whether this listener has still to receive its initial snapshot
NewSub(uid) == [uid |-> uid, status |-> "active", last |-> <<>>, fresh |-> TRUE]

\* usersSeen, skillsSeen: the hook's callbacks have run at least once
SubsInit ==
    [users |-> NewSub(NoId), skills |-> NewSub(NoId),
     usersSeen |-> FALSE, skillsSeen |-> FALSE]

Roles == {"Admin", "Manager", "Engineer", "Viewer"}

\* the role of a document that has no role field
NoRole == "undefined"

\* role values a stored document can carry, the enumeration and one outside it
AnyRole == Roles \cup {"Contractor", NoRole}

\* identities that can sign in
Uids == {"e1", "u1"}

UserDoc(name, role, managerId, vacationDates, srThreshold, currentSrCount) ==
    [name |-> name, role |-> role, managerId |-> managerId,
     vacationDates |-> vacationDates, skills |-> <<>>,
     srThreshold |-> srThreshold, currentSrCount |-> currentSrCount]

DefaultUser(uid) ==
    [name |-> "Anonymous User " \o uid, role |-> "Viewer", managerId |-> NoId,
     vacationDates |-> <<>>, skills |-> <<>>,
     srThreshold |-> 0, currentSrCount |-> 0]

NoUser == [id |-> NoId]

\* the provider's effect has run once and registered one observer; second is
\* the session state last delivered to an observer of a second run
ProviderInit == [effects |-> 1, observers |-> 1, second |-> "none"]

\* { ...user, ...doc.data(), id: user.uid }
MergeUser(uid, data) == [id |-> uid] @@ data

Exists(id) == id \in DOMAIN users

SetDocument(id, data) == [x \in DOMAIN users \cup {id} |-> IF x = id THEN data ELSE users[x]]

DeleteDocument(id) == [x \in DOMAIN users \ {id} |-> users[x]]

----------------------------------------------------------------------------
(* Session provider *)

\* the observer's code up to its first await, or all of it for a sign-out
AuthNotify(u) ==
    /\ Len(callbacks) < MaxEvents
    /\ IF u = NoId
       THEN /\ currentUser' = NoUser
            /\ isAuthReady' = TRUE
            /\ callbacks' = Append(callbacks, [user |-> NoId, pc |-> "done", found |-> FALSE])
       ELSE /\ callbacks' = Append(callbacks, [user |-> u, pc |-> "getDoc", found |-> FALSE])
            /\ UNCHANGED <<currentUser, isAuthReady>>

InitialAuthState ==
    /\ ~initialDelivered
    /\ initialDelivered' = TRUE
    /\ lastNotified' = authUid
    /\ AuthNotify(authUid)
    /\ UNCHANGED <<users, authUid, signInPc, remoteEdits>>
    /\ UNCHANGED <<skills, appVars, dashVars, provider>>

SignInOk(u) ==
    /\ signInPc = "pending"
    /\ initialDelivered
    /\ signInPc' = "ok"
    /\ authUid' = u
    /\ lastNotified' = u
    /\ IF u # lastNotified
       THEN AuthNotify(u)
       ELSE UNCHANGED <<currentUser, isAuthReady, callbacks>>
    /\ UNCHANGED <<users, initialDelivered, remoteEdits>>
    /\ UNCHANGED <<skills, appVars, dashVars, provider>>

SignInFail ==
    /\ signInPc = "pending"
    /\ signInPc' = "failed"
    /\ isAuthReady' = TRUE
    /\ UNCHANGED <<users, currentUser, authUid, lastNotified, initialDelivered,
                   callbacks, remoteEdits>>
    /\ UNCHANGED <<skills, appVars, dashVars, provider>>

SignOut ==
    /\ isAuthReady
    /\ authUid # NoId
    /\ authUid' = NoId
    /\ lastNotified' = NoId
    /\ AuthNotify(NoId)
    /\ UNCHANGED <<users, initialDelivered, signInPc, remoteEdits>>
    /\ UNCHANGED <<skills, appVars, dashVars, provider>>

\* mutant: the lookup result is ignored and the default profile is always written
GetDocOk_IgnoreExisting(i) ==
    /\ callbacks[i].pc = "getDoc"
    /\ callbacks' = [callbacks EXCEPT ![i].pc = "setDoc"]
    /\ UNCHANGED <<users, currentUser, isAuthReady, authUid, lastNotified,
                   initialDelivered, signInPc, remoteEdits>>
    /\ UNCHANGED <<skills, appVars, dashVars, provider>>

GetDocOk(i) ==
    /\ callbacks[i].pc = "getDoc"
    /\ LET u == callbacks[i].user IN
       IF Exists(u)
       THEN /\ currentUser' = MergeUser(u, users[u])
            /\ isAuthReady' = TRUE
            /\ callbacks' = [callbacks EXCEPT ![i].pc = "done", ![i].found = TRUE]
       ELSE /\ callbacks' = [callbacks EXCEPT ![i].pc = "setDoc"]
            /\ UNCHANGED <<currentUser, isAuthReady>>
    /\ UNCHANGED <<users, authUid, lastNotified, initialDelivered, signInPc, remoteEdits>>
    /\ UNCHANGED <<skills, appVars, dashVars, provider>>

GetDocFail(i) ==
    /\ callbacks[i].pc = "getDoc"
    /\ callbacks' = [callbacks EXCEPT ![i].pc = "failed"]
    /\ UNCHANGED <<users, isAuthReady, currentUser, authUid, lastNotified,
                   initialDelivered, signInPc, remoteEdits>>
    /\ UNCHANGED <<skills, appVars, dashVars, provider>>

SetDocOk(i) ==
    /\ callbacks[i].pc = "setDoc"
    /\ LET u == callbacks[i].user IN
       /\ users' = SetDocument(u, DefaultUser(u))
       /\ currentUser' = MergeUser(u, DefaultUser(u))
    /\ isAuthReady' = TRUE
    /\ callbacks' = [callbacks EXCEPT ![i].pc = "done"]
    /\ UNCHANGED <<authUid, lastNotified, initialDelivered, signInPc, remoteEdits>>
    /\ UNCHANGED <<skills, appVars, dashVars, provider>>

SetDocFail(i) ==
    /\ callbacks[i].pc = "setDoc"
    /\ callbacks' = [callbacks EXCEPT ![i].pc = "failed"]
    /\ UNCHANGED <<users, isAuthReady, currentUser, authUid, lastNotified,
                   initialDelivered, signInPc, remoteEdits>>
    /\ UNCHANGED <<skills, appVars, dashVars, provider>>

\* an administrator in another session saves a role edit of a user
RemoteRoleEdit(id, r) ==
    /\ remoteEdits < MaxRemoteEdits
    /\ Exists(id)
    /\ users[id].role # r
    /\ users' = SetDocument(id, [users[id] EXCEPT !.role = r])
    /\ remoteEdits' = remoteEdits + 1
    /\ UNCHANGED <<isAuthReady, currentUser, authUid, lastNotified, initialDelivered,
                   signInPc, callbacks>>
    /\ UNCHANGED <<skills, appVars, dashVars, provider>>

\* an administrator in another session deletes a user
RemoteDelete(id) ==
    /\ remoteEdits < MaxRemoteEdits
    /\ Exists(id)
    /\ users' = DeleteDocument(id)
    /\ remoteEdits' = remoteEdits + 1
    /\ UNCHANGED <<isAuthReady, currentUser, authUid, lastNotified, initialDelivered,
                   signInPc, callbacks>>
    /\ UNCHANGED <<skills, appVars, dashVars, provider>>

InitSession ==
    /\ \E r \in AnyRole : users = [x \in {"e1"} |-> UserDoc("Eve", r, NoId, <<>>, 0, 0)]
    /\ isAuthReady = FALSE
    /\ currentUser = NoUser
    /\ authUid \in Uids \cup {NoId}
    /\ lastNotified = NoId
    /\ initialDelivered = FALSE
    /\ signInPc = "pending"
    /\ callbacks = <<>>
    /\ remoteEdits = 0
    /\ provider = ProviderInit
    /\ inflight = <<>>
    /\ budget = 0
    /\ cache = <<>>
    /\ sra = <<>>
    /\ skills = <<>>
    /\ skillCache = <<>>
    /\ ev = Unmounted
    /\ mvm = Unmounted
    /\ um = Unmounted
    /\ sm = Unmounted
    /\ trip = NoTrip
    /\ hooks = HooksInit
    /\ subs = SubsInit

NextSession ==
    \/ InitialAuthState
    \/ \E u \in Uids : SignInOk(u)
    \/ SignInFail
    \/ SignOut
    \/ \E i \in DOMAIN callbacks : GetDocOk(i)
    \/ \E i \in DOMAIN callbacks : GetDocFail(i)
    \/ \E i \in DOMAIN callbacks : SetDocOk(i)
    \/ \E i \in DOMAIN callbacks : SetDocFail(i)
    \/ \E id \in Uids, r \in AnyRole : RemoteRoleEdit(id, r)
    \/ \E id \in Uids : RemoteDelete(id)

SpecSession == InitSession /\ [][NextSession]_vars

----------------------------------------------------------------------------
(* Collection caches of the App: useUsers and useSkills *)

\* document ids in the order the store lists the documents of a collection
IdOrder == <<"e1", "k1", "k2", "m1", "n1", "u1">>

IdKey(id) == CHOOSE i \in DOMAIN IdOrder : IdOrder[i] = id

RECURSIVE SeqOfIds(_)
SeqOfIds(S) ==
    IF S = {} THEN <<>>
    ELSE LET m == CHOOSE x \in S : \A y \in S : IdKey(x) <= IdKey(y)
         IN <<m>> \o SeqOfIds(S \ {m})

\* snapshot.docs.map(doc => ({ id: doc.id, ...doc.data() }))
ListOf(coll) ==
    LET ids == SeqOfIds(DOMAIN coll)
    IN [i \in 1..Len(ids) |-> [id |-> ids[i]] @@ coll[ids[i]]]

\* names in the order localeCompare puts them
NameOrder == <<"", "Anonymous User e1", "Anonymous User u1", "Eve", "Max", "New">>

NameKey(n) == CHOOSE i \in DOMAIN NameOrder : NameOrder[i] = n

\* roleOrder[role]; a role that is not a key of roleOrder gives undefined
Undefined == [undefined |-> TRUE]

RoleOrder(role) ==
    IF role = "Admin" THEN [undefined |-> FALSE, rank |-> 0]
    ELSE IF role = "Manager" THEN [undefined |-> FALSE, rank |-> 1]
    ELSE IF role = "Engineer" THEN [undefined |-> FALSE, rank |-> 2]
    ELSE IF role = "Viewer" THEN [undefined |-> FALSE, rank |-> 3]
    ELSE Undefined

\* the comparator passed to usersList.sort: a number, or NaN when exactly
\* one of the two ranks is undefined
Comparator(a, b) ==
    LET ra == RoleOrder(a.role)
        rb == RoleOrder(b.role)
    IN IF ra # rb
       THEN IF ra.undefined \/ rb.undefined THEN [nan |-> TRUE, v |-> 0]
            ELSE [nan |-> FALSE, v |-> ra.rank - rb.rank]
       ELSE [nan |-> FALSE, v |-> NameKey(a.name) - NameKey(b.name)]

\* Array.prototype.sort reads a NaN result of the comparator as +0
SortCompare(a, b) == IF Comparator(a, b).nan THEN 0 ELSE Comparator(a, b).v

Elements(list) == {list[i] : i \in DOMAIN list}

\* the comparator is a consistent comparator for the elements of the list
Consistent(list) ==
    \A a, b, c \in Elements(list) :
        /\ (SortCompare(a, b) = 0 /\ SortCompare(b, c) = 0) => SortCompare(a, c) = 0
        /\ (SortCompare(a, b) < 0 /\ SortCompare(b, c) < 0) => SortCompare(a, c) < 0
        /\ (SortCompare(a, b) > 0 /\ SortCompare(b, c) > 0) => SortCompare(a, c) > 0
        /\ (SortCompare(a, b) < 0) <=> (SortCompare(b, a) > 0)

RECURSIVE InsertSorted(_, _)
InsertSorted(s, x) ==
    IF s = <<>> THEN <<x>>
    ELSE IF SortCompare(x, Head(s)) < 0 THEN <<x>> \o s
    ELSE <<Head(s)>> \o InsertSorted(Tail(s), x)

RECURSIVE StableSort(_)
\* the stable sort a consistent comparator determines
StableSort(list) ==
    IF list = <<>> THEN <<>>
    ELSE InsertSorted(StableSort(SubSeq(list, 1, Len(list) - 1)), list[Len(list)])

Reorderings(list) ==
    {[i \in DOMAIN list |-> list[p[i]]] :
        p \in {q \in [DOMAIN list -> DOMAIN list] :
                  \A i, j \in DOMAIN list : i # j => q[i] # q[j]}}

\* usersList.sort(comparator): the stable sorted order, or for a comparator
\* that is not consistent an order the implementation chooses
SortOutcomes(list) ==
    IF Consistent(list) THEN {StableSort(list)} ELSE Reorderings(list)

\* mutant: a snapshot fills the empty list and is ignored afterwards
UsersSnapshotOf_KeepFirst(list) ==
    /\ subs.users.status = "active"
    /\ subs.users.fresh \/ subs.users.last # list
    /\ \E out \in SortOutcomes(list) :
          hooks' = [hooks EXCEPT !.users = IF hooks.users = <<>> THEN out ELSE hooks.users,
                                !.usersLoading = FALSE]
    /\ subs' = [subs EXCEPT !.users.last = list, !.users.fresh = FALSE, !.usersSeen = TRUE]
    /\ UNCHANGED <<users, skills, sessVars, dashVars>>

\* the success callback of the users subscription runs with a snapshot
\* mutant: a delivered snapshot clears the error
UsersSnapshotOf_ClearsError(list) ==
    /\ subs.users.status = "active"
    /\ subs.users.fresh \/ subs.users.last # list
    /\ \E out \in SortOutcomes(list) :
          hooks' = [hooks EXCEPT !.users = out, !.usersLoading = FALSE, !.usersError = NoId]
    /\ subs' = [subs EXCEPT !.users.last = list, !.users.fresh = FALSE, !.usersSeen = TRUE]
    /\ UNCHANGED <<users, skills, sessVars, dashVars>>

UsersSnapshotOf(list) ==
    /\ subs.users.status = "active"
    /\ subs.users.fresh \/ subs.users.last # list
    /\ \E out \in SortOutcomes(list) :
          hooks' = [hooks EXCEPT !.users = out, !.usersLoading = FALSE]
    /\ subs' = [subs EXCEPT !.users.last = list, !.users.fresh = FALSE, !.usersSeen = TRUE]
    /\ UNCHANGED <<users, skills, sessVars, dashVars>>

UsersSnapshot == UsersSnapshotOf(ListOf(users))

\* mutant: the error callback also empties the list
UsersError_ClearsList ==
    /\ subs.users.status = "active"
    /\ hooks' = [hooks EXCEPT !.usersError = "Failed to load users.", !.usersLoading = FALSE,
                              !.users = <<>>]
    /\ subs' = [subs EXCEPT !.users.status = "failed", !.usersSeen = TRUE]
    /\ UNCHANGED <<users, skills, sessVars, dashVars>>

\* the error callback of the users subscription runs; the listener is gone
UsersError ==
    /\ subs.users.status = "active"
    /\ hooks' = [hooks EXCEPT !.usersError = "Failed to load users.", !.usersLoading = FALSE]
    /\ subs' = [subs EXCEPT !.users.status = "failed", !.usersSeen = TRUE]
    /\ UNCHANGED <<users, skills, sessVars, dashVars>>

\* useUsers' effect runs again after currentUser?.id changed: the cleanup
\* unsubscribes and onSnapshot subscribes anew
UsersResubscribe ==
    /\ subs.users.uid # currentUser.id
    /\ subs' = [subs EXCEPT !.users = [NewSub(currentUser.id) EXCEPT !.last = subs.users.last]]
    /\ UNCHANGED <<users, skills, sessVars, hooks, dashVars>>

SkillsSnapshot ==
    /\ subs.skills.status = "active"
    /\ subs.skills.fresh \/ subs.skills.last # ListOf(skills)
    /\ hooks' = [hooks EXCEPT !.skills = ListOf(skills), !.skillsLoading = FALSE]
    /\ subs' = [subs EXCEPT !.skills.last = ListOf(skills), !.skills.fresh = FALSE,
                            !.skillsSeen = TRUE]
    /\ UNCHANGED <<users, skills, sessVars, dashVars>>

SkillsError ==
    /\ subs.skills.status = "active"
    /\ hooks' = [hooks EXCEPT !.skillsError = "Failed to load skills.",
                              !.skillsLoading = FALSE]
    /\ subs' = [subs EXCEPT !.skills.status = "failed", !.skillsSeen = TRUE]
    /\ UNCHANGED <<users, skills, sessVars, dashVars>>

----------------------------------------------------------------------------
(* View router: what App renders *)

\* mutant: the not-signed-in page is shown only while the users list is empty
RenderView_ByCache ==
    IF currentUser = NoUser
    THEN IF hooks.users = <<>> THEN "NoSession" ELSE "UnknownRole"
    ELSE IF currentUser.role \in Roles THEN currentUser.role
    ELSE "UnknownRole"

\* mutant: a role outside the enumeration gets the viewer dashboard
RenderView_DefaultViewer ==
    IF currentUser = NoUser THEN "NoSession"
    ELSE IF currentUser.role \in Roles THEN currentUser.role
    ELSE "Viewer"

\* renderView(): the not-signed-in page, a dashboard, or the access-denied page
RenderView ==
    IF currentUser = NoUser THEN "NoSession"
    ELSE IF currentUser.role \in Roles THEN currentUser.role
    ELSE "UnknownRole"

\* App's return value: the spinner and the error page come before renderView()
AppRenders ==
    IF ~isAuthReady \/ hooks.usersLoading \/ hooks.skillsLoading THEN "Loading"
    ELSE IF hooks.usersError # NoId \/ hooks.skillsError # NoId THEN "ErrorPage"
    ELSE RenderView

\* a page load: the session provider with the App and its two hooks
InitApp == InitSession

NextApp ==
    \/ InitialAuthState
    \/ \E u \in Uids : SignInOk(u)
    \/ SignInFail
    \/ SignOut
    \/ \E i \in DOMAIN callbacks : GetDocOk(i)
    \/ \E i \in DOMAIN callbacks : GetDocFail(i)
    \/ \E i \in DOMAIN callbacks : SetDocOk(i)
    \/ \E i \in DOMAIN callbacks : SetDocFail(i)
    \/ \E id \in Uids, r \in AnyRole : RemoteRoleEdit(id, r)
    \/ \E id \in Uids : RemoteDelete(id)
    \/ UsersSnapshot
    \/ UsersError
    \/ UsersResubscribe
    \/ SkillsSnapshot
    \/ SkillsError

SpecApp == InitApp /\ [][NextApp]_vars

----------------------------------------------------------------------------
(* Store writes shared by the dashboards *)

\* updateDoc merges the given fields into the document
MergeFields(doc, data) ==
    [f \in DOMAIN doc |-> IF f \in DOMAIN data THEN data[f] ELSE doc[f]]

\* the promise of a session's write settles after those of its earlier writes
FirstOfSession(i) ==
    \A j \in DOMAIN inflight : j < i => inflight[j].sess # inflight[i].sess

RemoveAt(seq, i) == [j \in 1..(Len(seq) - 1) |-> IF j < i THEN seq[j] ELSE seq[j + 1]]

\* mutant: an assignment computed from a count that is no longer the stored
\* one is rejected
CanCommit_RejectStale(w) ==
    (w.op = "update") =>
        /\ Exists(w.id)
        /\ (w.comp = "sra" /\ w.kind = "assign")
              => users[w.id].currentSrCount = w.engineer.currentSrCount

\* the store's contents after write w; updateDoc needs the document to exist
CanCommit(w) == (w.op = "update") => Exists(w.id)

Commit(w) ==
    IF w.op = "update" THEN SetDocument(w.id, MergeFields(users[w.id], w.data))
    ELSE IF w.op = "delete" THEN DeleteDocument(w.id)
    ELSE SetDocument(w.id, w.data)

\* a snapshot of the users collection reaches a session's useUsers hook
Snapshot(s) ==
    /\ cache[s] # users
    /\ cache' = [cache EXCEPT ![s] = users]
    /\ UNCHANGED <<users, skills, sessVars, appVars, inflight, budget, skillCache, compVars, trip>>

----------------------------------------------------------------------------
(* Manager dashboard: SRAssignment *)

MgrId == "m1"

SrSessions == {"M1", "M2"}

\* an element of the users list: { id: doc.id, ...doc.data() }
Engineer(s, id) == [id |-> id] @@ cache[s][id]

\* users.filter(u => u.managerId === currentUser.id && u.role === 'Engineer')
MyTeam(s) ==
    {id \in DOMAIN cache[s] :
        cache[s][id].managerId = MgrId /\ cache[s][id].role = "Engineer"}

NoAction == [kind |-> "none"]

SraInit ==
    [selectedEngineerId |-> NoId, isForceAssign |-> FALSE, message |-> "",
     isModalOpen |-> FALSE, modalAction |-> NoAction, sent |-> 0, timers |-> 0]

\* the component renders its controls and its modal only for a non-empty team
SraRendered(s) == MyTeam(s) # {}

\* confirmAssignSR up to its await
AssignWrite(s, engineer, force) ==
    [sess |-> s, comp |-> "sra", kind |-> "assign", op |-> "update", id |-> engineer.id,
     data |-> [currentSrCount |-> engineer.currentSrCount + 1],
     engineer |-> engineer, force |-> force]

\* mutant: the reset also clears the threshold
ResetWrite_AlsoThreshold(s, engineer) ==
    [sess |-> s, comp |-> "sra", kind |-> "reset", op |-> "update", id |-> engineer.id,
     data |-> [currentSrCount |-> 0, srThreshold |-> 0],
     engineer |-> engineer, force |-> FALSE]

\* confirmResetSR up to its await
ResetWrite(s, engineer) ==
    [sess |-> s, comp |-> "sra", kind |-> "reset", op |-> "update", id |-> engineer.id,
     data |-> [currentSrCount |-> 0],
     engineer |-> engineer, force |-> FALSE]

SelectEngineer(s, id) ==
    /\ budget > 0
    /\ SraRendered(s)
    /\ ~sra[s].isModalOpen
    /\ id \in MyTeam(s) \cup {NoId}
    /\ id # sra[s].selectedEngineerId
    /\ sra' = [sra EXCEPT ![s].selectedEngineerId = id]
    /\ budget' = budget - 1
    /\ UNCHANGED <<users, skills, sessVars, appVars, skillCache, exceptSra, trip, inflight, cache>>

ToggleForceAssign(s) ==
    /\ budget > 0
    /\ SraRendered(s)
    /\ ~sra[s].isModalOpen
    /\ sra' = [sra EXCEPT ![s].isForceAssign = ~sra[s].isForceAssign]
    /\ budget' = budget - 1
    /\ UNCHANGED <<users, skills, sessVars, appVars, skillCache, exceptSra, trip, inflight, cache>>

\* mutant: the threshold gate is missing
HandleAssignSR_NoGate(s) ==
    /\ budget > 0
    /\ SraRendered(s)
    /\ ~sra[s].isModalOpen
    /\ sra[s].selectedEngineerId \in MyTeam(s)
    /\ budget' = budget - 1
    /\ inflight' = Append(inflight, AssignWrite(s, Engineer(s, sra[s].selectedEngineerId),
                                                sra[s].isForceAssign))
    /\ UNCHANGED <<users, skills, sessVars, appVars, skillCache, exceptSra, trip, cache, sra>>

\* mutant: the selected engineer is looked up among all cached users
HandleAssignSR_AnyUser(s) ==
    /\ budget > 0
    /\ SraRendered(s)
    /\ ~sra[s].isModalOpen
    /\ sra[s].selectedEngineerId # NoId
    /\ budget' = budget - 1
    /\ LET sel == sra[s].selectedEngineerId IN
       IF sel \notin DOMAIN cache[s]
       THEN /\ sra' = [sra EXCEPT ![s].message = "Selected engineer not found."]
            /\ UNCHANGED inflight
       ELSE LET engineer == Engineer(s, sel) IN
            IF ~sra[s].isForceAssign /\ engineer.currentSrCount >= engineer.srThreshold
            THEN /\ sra' = [sra EXCEPT ![s].isModalOpen = TRUE,
                                       ![s].modalAction =
                                           [kind |-> "assign", engineer |-> engineer],
                                       ![s].sent = 0]
                 /\ UNCHANGED inflight
            ELSE /\ inflight' = Append(inflight, AssignWrite(s, engineer, sra[s].isForceAssign))
                 /\ UNCHANGED sra
    /\ UNCHANGED <<users, skills, sessVars, appVars, skillCache, exceptSra, trip, cache>>

\* mutant: the confirmation is asked for only above the threshold
HandleAssignSR_StrictGate(s) ==
    /\ budget > 0
    /\ SraRendered(s)
    /\ ~sra[s].isModalOpen
    /\ sra[s].selectedEngineerId # NoId
    /\ budget' = budget - 1
    /\ LET sel == sra[s].selectedEngineerId IN
       IF sel \notin MyTeam(s)
       THEN /\ sra' = [sra EXCEPT ![s].message = "Selected engineer not found."]
            /\ UNCHANGED inflight
       ELSE LET engineer == Engineer(s, sel) IN
            IF ~sra[s].isForceAssign /\ engineer.currentSrCount > engineer.srThreshold
            THEN /\ sra' = [sra EXCEPT ![s].isModalOpen = TRUE,
                                       ![s].modalAction =
                                           [kind |-> "assign", engineer |-> engineer],
                                       ![s].sent = 0]
                 /\ UNCHANGED inflight
            ELSE /\ inflight' = Append(inflight, AssignWrite(s, engineer, sra[s].isForceAssign))
                 /\ UNCHANGED sra
    /\ UNCHANGED <<users, skills, sessVars, appVars, skillCache, exceptSra, trip, cache>>

HandleAssignSR(s) ==
    /\ budget > 0
    /\ SraRendered(s)
    /\ ~sra[s].isModalOpen
    /\ sra[s].selectedEngineerId # NoId
    /\ budget' = budget - 1
    /\ LET sel == sra[s].selectedEngineerId IN
       IF sel \notin MyTeam(s)
       THEN /\ sra' = [sra EXCEPT ![s].message = "Selected engineer not found."]
            /\ UNCHANGED inflight
       ELSE LET engineer == Engineer(s, sel) IN
            IF ~sra[s].isForceAssign /\ engineer.currentSrCount >= engineer.srThreshold
            THEN /\ sra' = [sra EXCEPT ![s].isModalOpen = TRUE,
                                       ![s].modalAction =
                                           [kind |-> "assign", engineer |-> engineer],
                                       ![s].sent = 0]
                 /\ UNCHANGED inflight
            ELSE /\ inflight' = Append(inflight, AssignWrite(s, engineer, sra[s].isForceAssign))
                 /\ UNCHANGED sra
    /\ UNCHANGED <<users, skills, sessVars, appVars, skillCache, exceptSra, trip, cache>>

HandleResetSR(s, id) ==
    /\ budget > 0
    /\ SraRendered(s)
    /\ ~sra[s].isModalOpen
    /\ id \in MyTeam(s)
    /\ sra' = [sra EXCEPT ![s].isModalOpen = TRUE,
                          ![s].modalAction = [kind |-> "reset", engineer |-> Engineer(s, id)],
                          ![s].sent = 0]
    /\ budget' = budget - 1
    /\ UNCHANGED <<users, skills, sessVars, appVars, skillCache, exceptSra, trip, inflight, cache>>

\* the modal's Confirm button: if (modalAction) modalAction()
SraConfirm(s) ==
    /\ budget > 0
    /\ SraRendered(s)
    /\ sra[s].isModalOpen
    /\ sra[s].modalAction.kind # "none"
    /\ LET a == sra[s].modalAction IN
       inflight' = Append(inflight,
                          IF a.kind = "assign" THEN AssignWrite(s, a.engineer, TRUE)
                          ELSE ResetWrite(s, a.engineer))
    /\ sra' = [sra EXCEPT ![s].sent = @ + 1]
    /\ budget' = budget - 1
    /\ UNCHANGED <<users, skills, sessVars, appVars, skillCache, exceptSra, trip, cache>>

\* the modal's Cancel button
SraCancel(s) ==
    /\ budget > 0
    /\ SraRendered(s)
    /\ sra[s].isModalOpen
    /\ sra' = [sra EXCEPT ![s].isModalOpen = FALSE]
    /\ budget' = budget - 1
    /\ UNCHANGED <<users, skills, sessVars, appVars, skillCache, exceptSra, trip, inflight, cache>>

\* what confirmAssignSR / confirmResetSR do once their updateDoc has resolved
SraAfterWrite(w) ==
    IF w.kind = "assign"
    THEN [sra EXCEPT ![w.sess].message = "SR assigned",
                     ![w.sess].selectedEngineerId = NoId,
                     ![w.sess].isForceAssign = FALSE,
                     ![w.sess].timers = @ + 1,
                     ![w.sess].isModalOpen = FALSE]
    ELSE [sra EXCEPT ![w.sess].message = "SR count reset",
                     ![w.sess].timers = @ + 1,
                     ![w.sess].isModalOpen = FALSE]

\* ... and once it has been rejected
SraAfterError(w) ==
    [sra EXCEPT ![w.sess].message =
                    IF w.kind = "assign" THEN "Error assigning SR" ELSE "Error resetting SR count",
                ![w.sess].isModalOpen = FALSE]

\* a callback of setTimeout(() => setMessage(''), 3000) runs
SraTimerFires(s) ==
    /\ sra[s].timers > 0
    /\ sra' = [sra EXCEPT ![s].message = "", ![s].timers = @ - 1]
    /\ UNCHANGED <<users, skills, sessVars, appVars, inflight, budget, cache, skillCache, exceptSra, trip>>

SraWriteOk(i) ==
    /\ inflight[i].comp = "sra"
    /\ FirstOfSession(i)
    /\ CanCommit(inflight[i])
    /\ users' = Commit(inflight[i])
    /\ inflight' = RemoveAt(inflight, i)
    /\ sra' = SraAfterWrite(inflight[i])
    /\ UNCHANGED <<skills, sessVars, appVars, budget, cache, skillCache, exceptSra, trip>>

SraWriteFail(i) ==
    /\ inflight[i].comp = "sra"
    /\ FirstOfSession(i)
    /\ inflight' = RemoveAt(inflight, i)
    /\ sra' = SraAfterError(inflight[i])
    /\ UNCHANGED <<users, skills, sessVars, appVars, skillCache, exceptSra, trip, budget, cache>>

InitStore ==
    \E t \in 0..MaxThreshold :
        users = [x \in {"m1", "e1"} |->
                    IF x = "m1" THEN UserDoc("Max", "Manager", NoId, <<>>, 0, 0)
                    ELSE UserDoc("Eve", "Engineer", MgrId, <<>>, t, 0)]

\* sessions that are signed in and idle
InitSignedIn ==
    /\ isAuthReady = TRUE
    /\ currentUser = NoUser
    /\ authUid = NoId
    /\ lastNotified = NoId
    /\ initialDelivered = TRUE
    /\ signInPc = "ok"
    /\ callbacks = <<>>
    /\ remoteEdits = 0
    /\ provider = ProviderInit

InitSR ==
    /\ InitStore
    /\ InitSignedIn
    /\ inflight = <<>>
    /\ budget = BudgetSR
    /\ cache = [s \in SrSessions |-> users]
    /\ sra = [s \in SrSessions |-> SraInit]
    /\ skills = <<>>
    /\ skillCache = <<>>
    /\ ev = Unmounted
    /\ mvm = Unmounted
    /\ um = Unmounted
    /\ sm = Unmounted
    /\ trip = NoTrip
    /\ hooks = HooksInit
    /\ subs = SubsInit

NextSR ==
    \/ \E s \in SrSessions : Snapshot(s)
    \/ \E s \in SrSessions, id \in DOMAIN users \cup {NoId} : SelectEngineer(s, id)
    \/ \E s \in SrSessions : ToggleForceAssign(s)
    \/ \E s \in SrSessions : HandleAssignSR(s)
    \/ \E s \in SrSessions, id \in DOMAIN users : HandleResetSR(s, id)
    \/ \E s \in SrSessions : SraConfirm(s)
    \/ \E s \in SrSessions : SraCancel(s)
    \/ \E i \in DOMAIN inflight : SraWriteOk(i)
    \/ \E i \in DOMAIN inflight : SraWriteFail(i)
    \/ \E s \in SrSessions : SraTimerFires(s)

SpecSR == InitSR /\ [][NextSR]_vars

\* timers run and the store settles every write; the user may stop acting
SpecSRLive ==
    /\ SpecSR
    /\ WF_vars(\E s \in SrSessions : SraTimerFires(s))
    /\ WF_vars(\E i \in DOMAIN inflight : SraWriteOk(i) \/ SraWriteFail(i))

----------------------------------------------------------------------------
(* Vacation dates.  A date stands for an ISO yyyy-mm-dd string; the order on
   dates is the order Array.prototype.sort() puts those strings in. *)

Dates == 1..MaxDate

Includes(seq, d) == \E i \in DOMAIN seq : seq[i] = d

\* seq.filter(date => date !== d)
Without(seq, d) == SelectSeq(seq, LAMBDA x : x # d)

RECURSIVE Sorted(_)
\* seq.sort()
Sorted(seq) ==
    IF Len(seq) <= 1 THEN seq
    ELSE LET i == CHOOSE i \in DOMAIN seq :
                    /\ \A j \in DOMAIN seq : seq[i] <= seq[j]
                    /\ \A j \in DOMAIN seq : seq[j] = seq[i] => i <= j
         IN <<seq[i]>> \o Sorted(RemoveAt(seq, i))

\* [...seq, d], left unsorted
WithSorted_NoSort(seq, d) == Append(seq, d)

\* [...seq, d].sort()
WithSorted(seq, d) == Sorted(Append(seq, d))

IsAscending(seq) == \A i, j \in DOMAIN seq : i < j => seq[i] < seq[j]

\* the ascending sequences without duplicates over the dates
AscendingSeqs ==
    {Sorted(q) : q \in {q \in UNION {[1..n -> Dates] : n \in 0..MaxDate} :
                            \A i, j \in DOMAIN q : i # j => q[i] # q[j]}}

----------------------------------------------------------------------------
(* Engineer dashboard: EngineerView, in the session of user e1 *)

EngId == "e1"

EvInit ==
    [message |-> "", modalMessage |-> "", isModalOpen |-> FALSE, modalAction |-> NoAction,
     sent |-> 0, timers |-> 0]

\* the router shows the engineer dashboard
EvRendered == isAuthReady /\ currentUser.id # NoId /\ currentUser.role = "Engineer"

EvWrite(kind, d) ==
    [sess |-> "E1", comp |-> "ev", kind |-> kind, op |-> "update", id |-> currentUser.id,
     date |-> d,
     data |-> [vacationDates |->
                  IF kind = "addVac" THEN WithSorted(currentUser.vacationDates, d)
                  ELSE Without(currentUser.vacationDates, d)]]

\* the Request button, with the date typed into the input
HandleAddVacationRequest(d) ==
    /\ budget > 0
    /\ EvRendered
    /\ ~ev.isModalOpen
    /\ ev' = [ev EXCEPT !.isModalOpen = TRUE,
                        !.modalMessage =
                            IF Includes(currentUser.vacationDates, d)
                            THEN "You already have vacation"
                            ELSE "Request vacation?",
                        !.modalAction =
                            IF Includes(currentUser.vacationDates, d) THEN NoAction
                            ELSE [kind |-> "addVac", date |-> d],
                        !.sent = 0]
    /\ budget' = budget - 1
    /\ UNCHANGED <<users, skills, sessVars, appVars, inflight, cache, skillCache, exceptEv, trip>>

\* the remove button of a listed date
HandleRemoveVacationRequest(d) ==
    /\ budget > 0
    /\ EvRendered
    /\ ~ev.isModalOpen
    /\ Includes(currentUser.vacationDates, d)
    /\ ev' = [ev EXCEPT !.isModalOpen = TRUE,
                        !.modalMessage = "Remove your vacation?",
                        !.modalAction = [kind |-> "remVac", date |-> d],
                        !.sent = 0]
    /\ budget' = budget - 1
    /\ UNCHANGED <<users, skills, sessVars, appVars, inflight, cache, skillCache, exceptEv, trip>>

\* the modal's Confirm button: runs the action and closes the modal
EvConfirm ==
    /\ budget > 0
    /\ EvRendered
    /\ ev.isModalOpen
    /\ ev.modalAction.kind # "none"
    /\ inflight' = Append(inflight, EvWrite(ev.modalAction.kind, ev.modalAction.date))
    /\ ev' = [ev EXCEPT !.isModalOpen = FALSE, !.sent = @ + 1]
    /\ budget' = budget - 1
    /\ UNCHANGED <<users, skills, sessVars, appVars, cache, skillCache, exceptEv, trip>>

\* the modal's Cancel button, or OK on an informational modal
EvCancel ==
    /\ budget > 0
    /\ EvRendered
    /\ ev.isModalOpen
    /\ ev' = [ev EXCEPT !.isModalOpen = FALSE]
    /\ budget' = budget - 1
    /\ UNCHANGED <<users, skills, sessVars, appVars, inflight, cache, skillCache, exceptEv, trip>>

EvAfterWrite(w) ==
    [ev EXCEPT !.message = IF w.kind = "addVac" THEN "Vacation request submitted successfully!"
                           ELSE "Vacation removed successfully!",
               !.timers = @ + 1,
               !.isModalOpen = FALSE]

EvAfterError(w) ==
    [ev EXCEPT !.message = IF w.kind = "addVac" THEN "Error submitting vacation request"
                           ELSE "Error removing vacation request",
               !.isModalOpen = FALSE]

\* history of the last vacation write the store applied to a user: an add of
\* date d to a sequence that did not hold d, and the sequence before it
TripAfter(w) ==
    IF w.kind = "addVac" /\ w.id = EngId /\ ~Includes(users[w.id].vacationDates, w.date)
    THEN [active |-> TRUE, date |-> w.date, before |-> users[w.id].vacationDates]
    ELSE IF w.id = EngId THEN NoTrip ELSE trip

\* a callback of setTimeout(() => setMessage(''), 3000) runs
EvTimerFires ==
    /\ ev.timers > 0
    /\ ev' = [ev EXCEPT !.message = "", !.timers = @ - 1]
    /\ UNCHANGED <<users, skills, sessVars, appVars, inflight, budget, cache, skillCache, exceptEv, trip>>

EvWriteOk(i) ==
    /\ inflight[i].comp = "ev"
    /\ FirstOfSession(i)
    /\ CanCommit(inflight[i])
    /\ users' = Commit(inflight[i])
    /\ inflight' = RemoveAt(inflight, i)
    /\ ev' = EvAfterWrite(inflight[i])
    /\ trip' = TripAfter(inflight[i])
    /\ UNCHANGED <<skills, sessVars, appVars, budget, cache, skillCache, exceptEv>>

EvWriteFail(i) ==
    /\ inflight[i].comp = "ev"
    /\ FirstOfSession(i)
    /\ inflight' = RemoveAt(inflight, i)
    /\ ev' = EvAfterError(inflight[i])
    /\ UNCHANGED <<users, skills, sessVars, appVars, budget, cache, skillCache, exceptEv, trip>>

\* the engineer reloads the page and the session resolves again: the lookup
\* of the observer is the only place currentUser is taken from the store
EngineerReload ==
    /\ budget > 0
    /\ authUid = EngId
    /\ Exists(EngId)
    /\ \A i \in DOMAIN inflight : inflight[i].sess # "E1"
    /\ currentUser' = MergeUser(EngId, users[EngId])
    /\ isAuthReady' = TRUE
    /\ ev' = EvInit
    /\ budget' = budget - 1
    /\ UNCHANGED <<users, skills, appVars, authUid, lastNotified, initialDelivered, signInPc, provider,
                   callbacks, remoteEdits, inflight, cache, skillCache, exceptEv, trip>>

----------------------------------------------------------------------------
(* The engineer dashboard alone: one session of user e1 *)

InitVacStore ==
    \E S \in AscendingSeqs :
        users = [x \in {MgrId, EngId} |->
                    IF x = MgrId THEN UserDoc("Max", "Manager", NoId, <<>>, 0, 0)
                    ELSE UserDoc("Eve", "Engineer", MgrId, S, 1, 0)]

\* the session of e1 after it resolved: currentUser is the record the lookup read
InitEngineerSession ==
    /\ isAuthReady = TRUE
    /\ currentUser = MergeUser(EngId, users[EngId])
    /\ authUid = EngId
    /\ lastNotified = EngId
    /\ initialDelivered = TRUE
    /\ signInPc = "ok"
    /\ callbacks = <<>>
    /\ remoteEdits = 0
    /\ provider = ProviderInit

InitEngineer ==
    /\ InitVacStore
    /\ InitEngineerSession
    /\ inflight = <<>>
    /\ budget = BudgetEng
    /\ cache = <<>>
    /\ sra = Unmounted
    /\ skills = <<>>
    /\ skillCache = <<>>
    /\ ev = EvInit
    /\ mvm = Unmounted
    /\ um = Unmounted
    /\ sm = Unmounted
    /\ trip = NoTrip
    /\ hooks = HooksInit
    /\ subs = SubsInit

NextEngineer ==
    \/ \E d \in Dates : HandleAddVacationRequest(d)
    \/ \E d \in Dates : HandleRemoveVacationRequest(d)
    \/ EvConfirm
    \/ EvCancel
    \/ \E i \in DOMAIN inflight : EvWriteOk(i)
    \/ \E i \in DOMAIN inflight : EvWriteFail(i)
    \/ EngineerReload
    \/ EvTimerFires

SpecEngineer == InitEngineer /\ [][NextEngineer]_vars

----------------------------------------------------------------------------
(* Manager dashboard: ManagerVacationManagement *)

MvmInit == [isModalOpen |-> FALSE, modalAction |-> NoAction, modalMessage |-> "", sent |-> 0]

MvmWrite(s, a) ==
    [sess |-> s, comp |-> "mvm", kind |-> a.kind, op |-> "update", id |-> a.engineer.id,
     date |-> a.date,
     data |-> [vacationDates |->
                  IF a.kind = "addVac" THEN WithSorted(a.engineer.vacationDates, a.date)
                  ELSE Without(a.engineer.vacationDates, a.date)]]

\* the Add Vacation button, with the engineer selected and the date typed
HandleAddVacation(s, id, d) ==
    /\ budget > 0
    /\ ~mvm[s].isModalOpen
    /\ id \in MyTeam(s)
    /\ LET engineer == Engineer(s, id) IN
       mvm' = [mvm EXCEPT ![s].isModalOpen = TRUE,
                          ![s].modalMessage =
                              IF Includes(engineer.vacationDates, d) THEN "already has vacation"
                              ELSE "Add vacation?",
                          ![s].modalAction =
                              IF Includes(engineer.vacationDates, d) THEN NoAction
                              ELSE [kind |-> "addVac", engineer |-> engineer, date |-> d],
                          ![s].sent = 0]
    /\ budget' = budget - 1
    /\ UNCHANGED <<users, skills, sessVars, appVars, inflight, cache, skillCache, exceptMvm, trip>>

\* the remove button of a date listed for a team member
HandleRemoveVacation(s, id, d) ==
    /\ budget > 0
    /\ ~mvm[s].isModalOpen
    /\ id \in MyTeam(s)
    /\ Includes(cache[s][id].vacationDates, d)
    /\ mvm' = [mvm EXCEPT ![s].isModalOpen = TRUE,
                          ![s].modalMessage = "Remove vacation?",
                          ![s].modalAction =
                              [kind |-> "remVac", engineer |-> Engineer(s, id), date |-> d],
                          ![s].sent = 0]
    /\ budget' = budget - 1
    /\ UNCHANGED <<users, skills, sessVars, appVars, inflight, cache, skillCache, exceptMvm, trip>>

\* the modal's Confirm button, shown while there is an action
MvmConfirm(s) ==
    /\ budget > 0
    /\ mvm[s].isModalOpen
    /\ mvm[s].modalAction.kind # "none"
    /\ inflight' = Append(inflight, MvmWrite(s, mvm[s].modalAction))
    /\ mvm' = [mvm EXCEPT ![s].sent = @ + 1]
    /\ budget' = budget - 1
    /\ UNCHANGED <<users, skills, sessVars, appVars, cache, skillCache, exceptMvm, trip>>

\* the modal's Cancel button, or OK when there is no action
MvmCancel(s) ==
    /\ budget > 0
    /\ mvm[s].isModalOpen
    /\ mvm' = [mvm EXCEPT ![s].isModalOpen = FALSE]
    /\ budget' = budget - 1
    /\ UNCHANGED <<users, skills, sessVars, appVars, inflight, cache, skillCache, exceptMvm, trip>>

MvmAfterWrite(w) == [mvm EXCEPT ![w.sess].isModalOpen = FALSE]

MvmAfterError(w) ==
    [mvm EXCEPT ![w.sess].modalMessage =
                    IF w.kind = "addVac" THEN "Error adding vacation"
                    ELSE "Error removing vacation",
                ![w.sess].modalAction = NoAction,
                ![w.sess].isModalOpen = TRUE]

MvmWriteOk(i) ==
    /\ inflight[i].comp = "mvm"
    /\ FirstOfSession(i)
    /\ CanCommit(inflight[i])
    /\ users' = Commit(inflight[i])
    /\ inflight' = RemoveAt(inflight, i)
    /\ mvm' = MvmAfterWrite(inflight[i])
    /\ trip' = TripAfter(inflight[i])
    /\ UNCHANGED <<skills, sessVars, appVars, budget, cache, skillCache, exceptMvm>>

MvmWriteFail(i) ==
    /\ inflight[i].comp = "mvm"
    /\ FirstOfSession(i)
    /\ inflight' = RemoveAt(inflight, i)
    /\ mvm' = MvmAfterError(inflight[i])
    /\ UNCHANGED <<users, skills, sessVars, appVars, budget, cache, skillCache, exceptMvm, trip>>

----------------------------------------------------------------------------
(* Admin dashboard: UserManagement with the AddEditUserModal form *)

\* the admin session that shows the users tab
AdminSession == "A1"

\* the id the store gives the one document this model lets addDoc create
NewUserId == "n1"

BlankForm == UserDoc("", "Engineer", NoId, <<>>, 0, 0)

\* the form's fields taken from the user being edited
FormOf(user) ==
    UserDoc(user.name, user.role, user.managerId, user.vacationDates,
            user.srThreshold, user.currentSrCount)

UmInit ==
    [showAddEditModal |-> FALSE, editingUser |-> NoUser, formData |-> BlankForm,
     isDeleteModalOpen |-> FALSE, userToDelete |-> NoUser, message |-> "", sent |-> 0,
     timers |-> 0]

UmIdle == ~um.showAddEditModal /\ ~um.isDeleteModalOpen

HandleEditClick(id) ==
    /\ budget > 0
    /\ UmIdle
    /\ id \in DOMAIN cache[AdminSession]
    /\ um' = [um EXCEPT !.showAddEditModal = TRUE,
                        !.editingUser = Engineer(AdminSession, id),
                        !.formData = FormOf(cache[AdminSession][id])]
    /\ budget' = budget - 1
    /\ UNCHANGED <<users, skills, sessVars, appVars, inflight, cache, skillCache, exceptUm, trip>>

\* the Add New User button, with a name typed into the form
AddNewUserClick ==
    /\ budget > 0
    /\ UmIdle
    /\ ~Exists(NewUserId)
    /\ um' = [um EXCEPT !.showAddEditModal = TRUE,
                        !.editingUser = NoUser,
                        !.formData = [BlankForm EXCEPT !.name = "New"]]
    /\ budget' = budget - 1
    /\ UNCHANGED <<users, skills, sessVars, appVars, inflight, cache, skillCache, exceptUm, trip>>

\* the form's Add Date button, with the date typed into its input
HandleAddVacationDate(d) ==
    /\ budget > 0
    /\ um.showAddEditModal
    /\ um' = IF ~Includes(um.formData.vacationDates, d)
             THEN [um EXCEPT !.formData.vacationDates = WithSorted(@, d)]
             ELSE um
    /\ budget' = budget - 1
    /\ UNCHANGED <<users, skills, sessVars, appVars, inflight, cache, skillCache, exceptUm, trip>>

HandleRemoveVacationDate(d) ==
    /\ budget > 0
    /\ um.showAddEditModal
    /\ Includes(um.formData.vacationDates, d)
    /\ um' = [um EXCEPT !.formData.vacationDates = Without(@, d)]
    /\ budget' = budget - 1
    /\ UNCHANGED <<users, skills, sessVars, appVars, inflight, cache, skillCache, exceptUm, trip>>

\* handleSaveUser up to its await
SaveWrite ==
    IF um.editingUser # NoUser
    THEN [sess |-> AdminSession, comp |-> "um", kind |-> "saveUser", op |-> "update",
          id |-> um.editingUser.id, data |-> um.formData]
    ELSE [sess |-> AdminSession, comp |-> "um", kind |-> "saveUser", op |-> "add",
          id |-> NewUserId, data |-> um.formData]

\* the form's submit button: handleSubmit, onSave = handleSaveUser
HandleSubmit ==
    /\ budget > 0
    /\ um.showAddEditModal
    /\ inflight' = Append(inflight, SaveWrite)
    /\ budget' = budget - 1
    /\ UNCHANGED <<users, skills, sessVars, appVars, cache, skillCache, compVars, trip>>

\* the form's Cancel button
CloseAddEdit ==
    /\ budget > 0
    /\ um.showAddEditModal
    /\ um' = [um EXCEPT !.showAddEditModal = FALSE, !.editingUser = NoUser,
                        !.formData = BlankForm]
    /\ budget' = budget - 1
    /\ UNCHANGED <<users, skills, sessVars, appVars, inflight, cache, skillCache, exceptUm, trip>>

\* mutant: the delete is sent on the click, without the modal
HandleDeleteClick_NoGate(id) ==
    /\ budget > 0
    /\ UmIdle
    /\ id \in DOMAIN cache[AdminSession]
    /\ inflight' = Append(inflight,
                          [sess |-> AdminSession, comp |-> "um", kind |-> "deleteUser",
                           op |-> "delete", id |-> id, data |-> <<>>])
    /\ budget' = budget - 1
    /\ UNCHANGED <<users, skills, sessVars, appVars, cache, skillCache, compVars, trip>>

HandleDeleteClick(id) ==
    /\ budget > 0
    /\ UmIdle
    /\ id \in DOMAIN cache[AdminSession]
    /\ um' = [um EXCEPT !.isDeleteModalOpen = TRUE,
                        !.userToDelete = Engineer(AdminSession, id),
                        !.sent = 0]
    /\ budget' = budget - 1
    /\ UNCHANGED <<users, skills, sessVars, appVars, inflight, cache, skillCache, exceptUm, trip>>

\* the Confirm Delete button: confirmDeleteUser up to its await
ConfirmDeleteUser ==
    /\ budget > 0
    /\ um.isDeleteModalOpen
    /\ um.userToDelete # NoUser
    /\ inflight' = Append(inflight,
                          [sess |-> AdminSession, comp |-> "um", kind |-> "deleteUser",
                           op |-> "delete", id |-> um.userToDelete.id, data |-> <<>>])
    /\ um' = [um EXCEPT !.sent = @ + 1]
    /\ budget' = budget - 1
    /\ UNCHANGED <<users, skills, sessVars, appVars, cache, skillCache, exceptUm, trip>>

CancelDeleteUser ==
    /\ budget > 0
    /\ um.isDeleteModalOpen
    /\ um' = [um EXCEPT !.isDeleteModalOpen = FALSE, !.userToDelete = NoUser]
    /\ budget' = budget - 1
    /\ UNCHANGED <<users, skills, sessVars, appVars, inflight, cache, skillCache, exceptUm, trip>>

UmAfterWrite(w) ==
    IF w.kind = "saveUser"
    THEN [um EXCEPT !.message = IF w.op = "update" THEN "User updated successfully!"
                                ELSE "User added successfully!",
                    !.showAddEditModal = FALSE,
                    !.editingUser = NoUser,
                    !.formData = BlankForm,
                    !.timers = @ + 1]
    ELSE [um EXCEPT !.message = "User deleted successfully!",
                    !.timers = @ + 1,
                    !.isDeleteModalOpen = FALSE,
                    !.userToDelete = NoUser]

UmAfterError(w) ==
    [um EXCEPT !.message = IF w.kind = "saveUser" THEN "Error saving user"
                           ELSE "Error deleting user"]

\* a callback of setTimeout(() => setMessage(''), 3000) runs
UmTimerFires ==
    /\ um.timers > 0
    /\ um' = [um EXCEPT !.message = "", !.timers = @ - 1]
    /\ UNCHANGED <<users, skills, sessVars, appVars, inflight, budget, cache, skillCache, exceptUm, trip>>

\* a save or a delete of a user ends the history of its vacation writes
UmWriteOk(i) ==
    /\ inflight[i].comp = "um"
    /\ FirstOfSession(i)
    /\ CanCommit(inflight[i])
    /\ users' = Commit(inflight[i])
    /\ inflight' = RemoveAt(inflight, i)
    /\ um' = UmAfterWrite(inflight[i])
    /\ trip' = IF inflight[i].id = EngId THEN NoTrip ELSE trip
    /\ UNCHANGED <<skills, sessVars, appVars, budget, cache, skillCache, exceptUm>>

\* mutant: the rejected write is sent again
UmWriteFail_Retry(i) ==
    /\ inflight[i].comp = "um"
    /\ FirstOfSession(i)
    /\ inflight' = Append(RemoveAt(inflight, i), inflight[i])
    /\ um' = UmAfterError(inflight[i])
    /\ UNCHANGED <<users, skills, sessVars, appVars, budget, cache, skillCache, exceptUm, trip>>

UmWriteFail(i) ==
    /\ inflight[i].comp = "um"
    /\ FirstOfSession(i)
    /\ inflight' = RemoveAt(inflight, i)
    /\ um' = UmAfterError(inflight[i])
    /\ UNCHANGED <<users, skills, sessVars, appVars, budget, cache, skillCache, exceptUm, trip>>

----------------------------------------------------------------------------
(* Three sessions that edit vacation dates: the engineer's dashboard, a
   manager's vacation tab and an admin's user form *)

VacSessions == {"V1"}

InitVac ==
    /\ InitVacStore
    /\ InitEngineerSession
    /\ inflight = <<>>
    /\ budget = BudgetVac
    /\ cache = [s \in VacSessions \cup {AdminSession} |-> users]
    /\ sra = Unmounted
    /\ skills = <<>>
    /\ skillCache = <<>>
    /\ ev = EvInit
    /\ mvm = [s \in VacSessions |-> MvmInit]
    /\ um = UmInit
    /\ sm = Unmounted
    /\ trip = NoTrip
    /\ hooks = HooksInit
    /\ subs = SubsInit

NextVac ==
    \/ \E s \in DOMAIN cache : Snapshot(s)
    \/ \E d \in Dates : HandleAddVacationRequest(d)
    \/ \E d \in Dates : HandleRemoveVacationRequest(d)
    \/ EvConfirm
    \/ EvCancel
    \/ \E i \in DOMAIN inflight : EvWriteOk(i)
    \/ \E i \in DOMAIN inflight : EvWriteFail(i)
    \/ EngineerReload
    \/ \E s \in VacSessions, id \in DOMAIN users, d \in Dates : HandleAddVacation(s, id, d)
    \/ \E s \in VacSessions, id \in DOMAIN users, d \in Dates : HandleRemoveVacation(s, id, d)
    \/ \E s \in VacSessions : MvmConfirm(s)
    \/ \E s \in VacSessions : MvmCancel(s)
    \/ \E i \in DOMAIN inflight : MvmWriteOk(i)
    \/ \E i \in DOMAIN inflight : MvmWriteFail(i)
    \/ \E id \in DOMAIN users : HandleEditClick(id)
    \/ \E d \in Dates : HandleAddVacationDate(d)
    \/ \E d \in Dates : HandleRemoveVacationDate(d)
    \/ HandleSubmit
    \/ CloseAddEdit
    \/ \E i \in DOMAIN inflight : UmWriteOk(i)
    \/ \E i \in DOMAIN inflight : UmWriteFail(i)
    \/ EvTimerFires
    \/ UmTimerFires

SpecVac == InitVac /\ [][NextVac]_vars

----------------------------------------------------------------------------
(* Admin dashboard: SkillManagement *)

\* the admin session that shows the skills tab
SkillSession == "A2"

\* the id the store gives the one document this model lets addDoc create
NewSkillId == "k2"

SkillNames == {"Go", "Rust"}

NoSkill == [id |-> NoId]

SmInit ==
    [editingSkill |-> NoSkill, isDeleteModalOpen |-> FALSE, skillToDelete |-> NoSkill,
     message |-> "", sent |-> 0, timers |-> 0]

\* an element of the skills list: { id: doc.id, ...doc.data() }
Skill(id) == [id |-> id] @@ skillCache[id]

\* a snapshot of the skills collection reaches the admin session's useSkills hook
SkillSnapshot ==
    /\ skillCache # skills
    /\ skillCache' = skills
    /\ UNCHANGED <<users, skills, sessVars, appVars, inflight, budget, cache, compVars, trip>>

SkillWrite(kind, op, id, data) ==
    [sess |-> SkillSession, comp |-> "sm", kind |-> kind, op |-> op, id |-> id, data |-> data]

\* the form's submit while no skill is being edited, with a name typed
HandleAddSkill(n) ==
    /\ budget > 0
    /\ sm.editingSkill = NoSkill
    /\ NewSkillId \notin DOMAIN skills
    /\ \A i \in DOMAIN inflight : inflight[i].kind # "addSkill"
    /\ inflight' = Append(inflight, SkillWrite("addSkill", "add", NewSkillId, [name |-> n]))
    /\ budget' = budget - 1
    /\ UNCHANGED <<users, skills, sessVars, appVars, cache, skillCache, compVars, trip>>

HandleEditSkillClick(id) ==
    /\ budget > 0
    /\ id \in DOMAIN skillCache
    /\ sm.editingSkill # Skill(id)
    /\ sm' = [sm EXCEPT !.editingSkill = Skill(id)]
    /\ budget' = budget - 1
    /\ UNCHANGED <<users, skills, sessVars, appVars, inflight, cache, skillCache, exceptSm, trip>>

\* the form's submit while a skill is being edited, with a name typed
HandleUpdateSkill(n) ==
    /\ budget > 0
    /\ sm.editingSkill # NoSkill
    /\ inflight' = Append(inflight,
                          SkillWrite("updateSkill", "update", sm.editingSkill.id, [name |-> n]))
    /\ budget' = budget - 1
    /\ UNCHANGED <<users, skills, sessVars, appVars, cache, skillCache, compVars, trip>>

HandleDeleteSkillClick(id) ==
    /\ budget > 0
    /\ ~sm.isDeleteModalOpen
    /\ id \in DOMAIN skillCache
    /\ sm' = [sm EXCEPT !.isDeleteModalOpen = TRUE, !.skillToDelete = Skill(id), !.sent = 0]
    /\ budget' = budget - 1
    /\ UNCHANGED <<users, skills, sessVars, appVars, inflight, cache, skillCache, exceptSm, trip>>

\* the Confirm Delete button: confirmDeleteSkill up to its await
ConfirmDeleteSkill ==
    /\ budget > 0
    /\ sm.isDeleteModalOpen
    /\ sm.skillToDelete # NoSkill
    /\ inflight' = Append(inflight,
                          SkillWrite("deleteSkill", "delete", sm.skillToDelete.id, <<>>))
    /\ sm' = [sm EXCEPT !.sent = @ + 1]
    /\ budget' = budget - 1
    /\ UNCHANGED <<users, skills, sessVars, appVars, cache, skillCache, exceptSm, trip>>

CancelDeleteSkill ==
    /\ budget > 0
    /\ sm.isDeleteModalOpen
    /\ sm' = [sm EXCEPT !.isDeleteModalOpen = FALSE, !.skillToDelete = NoSkill]
    /\ budget' = budget - 1
    /\ UNCHANGED <<users, skills, sessVars, appVars, inflight, cache, skillCache, exceptSm, trip>>

SkillCanCommit(w) == (w.op = "update") => w.id \in DOMAIN skills

SkillCommit(w) ==
    IF w.op = "update"
    THEN [x \in DOMAIN skills |-> IF x = w.id THEN MergeFields(skills[x], w.data) ELSE skills[x]]
    ELSE IF w.op = "delete" THEN [x \in DOMAIN skills \ {w.id} |-> skills[x]]
    ELSE [x \in DOMAIN skills \cup {w.id} |-> IF x = w.id THEN w.data ELSE skills[x]]

SmAfterWrite(w) ==
    IF w.kind = "addSkill"
    THEN [sm EXCEPT !.message = "Skill added successfully!", !.timers = @ + 1]
    ELSE IF w.kind = "updateSkill"
    THEN [sm EXCEPT !.message = "Skill updated successfully!", !.editingSkill = NoSkill,
                    !.timers = @ + 1]
    ELSE [sm EXCEPT !.message = "Skill deleted successfully!", !.timers = @ + 1,
                    !.isDeleteModalOpen = FALSE, !.skillToDelete = NoSkill]

SmAfterError(w) ==
    IF w.kind = "addSkill" THEN [sm EXCEPT !.message = "Error adding skill"]
    ELSE IF w.kind = "updateSkill" THEN [sm EXCEPT !.message = "Error updating skill"]
    ELSE [sm EXCEPT !.message = "Error deleting skill", !.isDeleteModalOpen = FALSE]

\* a callback of setTimeout(() => setMessage(''), 3000) runs
SmTimerFires ==
    /\ sm.timers > 0
    /\ sm' = [sm EXCEPT !.message = "", !.timers = @ - 1]
    /\ UNCHANGED <<users, skills, sessVars, appVars, inflight, budget, cache, skillCache, exceptSm, trip>>

SmWriteOk(i) ==
    /\ inflight[i].comp = "sm"
    /\ FirstOfSession(i)
    /\ SkillCanCommit(inflight[i])
    /\ skills' = SkillCommit(inflight[i])
    /\ inflight' = RemoveAt(inflight, i)
    /\ sm' = SmAfterWrite(inflight[i])
    /\ UNCHANGED <<users, sessVars, appVars, budget, cache, skillCache, exceptSm, trip>>

SmWriteFail(i) ==
    /\ inflight[i].comp = "sm"
    /\ FirstOfSession(i)
    /\ inflight' = RemoveAt(inflight, i)
    /\ sm' = SmAfterError(inflight[i])
    /\ UNCHANGED <<users, skills, sessVars, appVars, budget, cache, skillCache, exceptSm, trip>>

----------------------------------------------------------------------------
(* All dashboards: a manager session on the SR tab, one on the vacation tab,
   the engineer's session and two admin sessions *)

DashSrSessions == {"M1"}

InitDashStore ==
    /\ \E t \in 0..MaxThreshold :
          users = [x \in {MgrId, EngId} |->
                      IF x = MgrId THEN UserDoc("Max", "Manager", NoId, <<>>, 0, 0)
                      ELSE UserDoc("Eve", "Engineer", MgrId, <<1>>, t, 0)]
    /\ skills = [x \in {"k1"} |-> [name |-> "Go"]]

InitDash ==
    /\ InitDashStore
    /\ InitEngineerSession
    /\ inflight = <<>>
    /\ budget = BudgetDash
    /\ cache = [s \in DashSrSessions \cup VacSessions \cup {AdminSession} |-> users]
    /\ skillCache = skills
    /\ sra = [s \in DashSrSessions |-> SraInit]
    /\ ev = EvInit
    /\ mvm = [s \in VacSessions |-> MvmInit]
    /\ um = UmInit
    /\ sm = SmInit
    /\ trip = NoTrip
    /\ hooks = HooksInit
    /\ subs = SubsInit

NextDash ==
    \/ \E s \in DOMAIN cache : Snapshot(s)
    \/ SkillSnapshot
    \/ \E s \in DashSrSessions, id \in DOMAIN users \cup {NoId} : SelectEngineer(s, id)
    \/ \E s \in DashSrSessions : ToggleForceAssign(s)
    \/ \E s \in DashSrSessions : HandleAssignSR(s)
    \/ \E s \in DashSrSessions, id \in DOMAIN users : HandleResetSR(s, id)
    \/ \E s \in DashSrSessions : SraConfirm(s)
    \/ \E s \in DashSrSessions : SraCancel(s)
    \/ \E i \in DOMAIN inflight : SraWriteOk(i)
    \/ \E i \in DOMAIN inflight : SraWriteFail(i)
    \/ \E d \in Dates : HandleAddVacationRequest(d)
    \/ \E d \in Dates : HandleRemoveVacationRequest(d)
    \/ EvConfirm
    \/ EvCancel
    \/ \E i \in DOMAIN inflight : EvWriteOk(i)
    \/ \E i \in DOMAIN inflight : EvWriteFail(i)
    \/ \E s \in VacSessions, id \in DOMAIN users, d \in Dates : HandleAddVacation(s, id, d)
    \/ \E s \in VacSessions, id \in DOMAIN users, d \in Dates : HandleRemoveVacation(s, id, d)
    \/ \E s \in VacSessions : MvmConfirm(s)
    \/ \E s \in VacSessions : MvmCancel(s)
    \/ \E i \in DOMAIN inflight : MvmWriteOk(i)
    \/ \E i \in DOMAIN inflight : MvmWriteFail(i)
    \/ \E id \in DOMAIN users : HandleEditClick(id)
    \/ AddNewUserClick
    \/ \E d \in Dates : HandleAddVacationDate(d)
    \/ \E d \in Dates : HandleRemoveVacationDate(d)
    \/ HandleSubmit
    \/ CloseAddEdit
    \/ \E id \in DOMAIN users : HandleDeleteClick(id)
    \/ ConfirmDeleteUser
    \/ CancelDeleteUser
    \/ \E i \in DOMAIN inflight : UmWriteOk(i)
    \/ \E i \in DOMAIN inflight : UmWriteFail(i)
    \/ \E n \in SkillNames : HandleAddSkill(n)
    \/ \E id \in DOMAIN skills : HandleEditSkillClick(id)
    \/ \E n \in SkillNames : HandleUpdateSkill(n)
    \/ \E id \in DOMAIN skills : HandleDeleteSkillClick(id)
    \/ ConfirmDeleteSkill
    \/ CancelDeleteSkill
    \/ \E i \in DOMAIN inflight : SmWriteOk(i)
    \/ \E i \in DOMAIN inflight : SmWriteFail(i)
    \/ \E s \in DashSrSessions : SraTimerFires(s)
    \/ EvTimerFires
    \/ UmTimerFires
    \/ SmTimerFires

SpecDash == InitDash /\ [][NextDash]_vars

\* the same dashboards with the caches of the engineer's App
InitCache ==
    /\ InitDashStore
    /\ InitEngineerSession
    /\ inflight = <<>>
    /\ budget = BudgetCache
    /\ cache = [s \in DashSrSessions \cup VacSessions \cup {AdminSession} |-> users]
    /\ skillCache = skills
    /\ sra = [s \in DashSrSessions |-> SraInit]
    /\ ev = EvInit
    /\ mvm = [s \in VacSessions |-> MvmInit]
    /\ um = UmInit
    /\ sm = SmInit
    /\ trip = NoTrip
    /\ hooks = HooksInit
    /\ subs = [SubsInit EXCEPT !.users = NewSub(EngId)]

NextCache ==
    \/ NextDash
    \/ UsersSnapshot
    \/ UsersError
    \/ SkillsSnapshot
    \/ SkillsError

SpecCache == InitCache /\ [][NextCache]_vars

----------------------------------------------------------------------------
(* The users hook alone, fed with the user lists a snapshot can deliver *)

SortRoles == Roles \cup {"Contractor"}

SortNames == {"Eve", "Max"}

\* no manager (null or missing, or the empty string), or the user m1 as manager
SortManagers == {NoId, "", MgrId}

\* the ids of the stored documents, in the store's order
SortIds == <<"e1", "m1", "u1">>

\* the stores of up to MaxUsers documents
SortStores ==
    UNION {[{SortIds[i] : i \in 1..n} ->
                {UserDoc(nm, r, mg, <<>>, 0, 0) :
                    nm \in SortNames, r \in SortRoles, mg \in SortManagers}]
           : n \in 0..MaxUsers}

\* the role filters of UserManagement and OverallRosterView
IsManager(u) == u.role = "Manager"

IsEngineerOrViewer(u) == u.role = "Engineer" \/ u.role = "Viewer"

\* !u.managerId
NoManager(u) == u.managerId \in {NoId, ""}

\* Admins, or users who are not Managers and have no managerId
IsOtherUser(u) == u.role = "Admin" \/ (u.role # "Manager" /\ NoManager(u))

managers(list) == SelectSeq(list, IsManager)

engineersAndViewers(list) == SelectSeq(list, IsEngineerOrViewer)

otherUsers(list) == SelectSeq(list, IsOtherUser)

\* engineersAndViewers.filter(u => u.managerId === manager.id)
TeamOf(list, manager) ==
    SelectSeq(engineersAndViewers(list), LAMBDA u : u.managerId = manager.id)

\* mutant: the table of the other users also lists the unassigned Managers
OverallRosterView_AllUnassigned(list) ==
    IF Len(managers(list)) = 0 /\ Len(engineersAndViewers(list)) = 0
    THEN [empty |-> TRUE, sections |-> <<>>, others |-> <<>>]
    ELSE [empty |-> FALSE,
          sections |-> [i \in DOMAIN managers(list) |->
                           [manager |-> managers(list)[i],
                            team |-> TeamOf(list, managers(list)[i])]],
          others |-> SelectSeq(list, LAMBDA u : u.role = "Admin" \/ NoManager(u))]

\* what OverallRosterView renders: the notice that no users are configured,
\* or one section per Manager with the table of the team, and the table of
\* the other users
OverallRosterView(list) ==
    IF Len(managers(list)) = 0 /\ Len(engineersAndViewers(list)) = 0
    THEN [empty |-> TRUE, sections |-> <<>>, others |-> <<>>]
    ELSE [empty |-> FALSE,
          sections |-> [i \in DOMAIN managers(list) |->
                           [manager |-> managers(list)[i],
                            team |-> TeamOf(list, managers(list)[i])]],
          others |-> otherUsers(list)]

InitSort ==
    /\ users \in SortStores
    /\ skills = <<>>
    /\ InitSignedIn
    /\ inflight = <<>>
    /\ budget = 0
    /\ cache = <<>>
    /\ skillCache = <<>>
    /\ sra = Unmounted
    /\ ev = Unmounted
    /\ mvm = Unmounted
    /\ um = Unmounted
    /\ sm = Unmounted
    /\ trip = NoTrip
    /\ hooks = HooksInit
    /\ subs = SubsInit

NextSort == UsersSnapshot

SpecSort == InitSort /\ [][NextSort]_vars

----------------------------------------------------------------------------
(* The App with its router and the engineer dashboard it mounts *)

\* mutant: the access-denied page also carries the vacation controls
Offered_VacationOnDenied ==
    IF AppRenders \in {"Loading", "ErrorPage"} THEN {}
    ELSE IF AppRenders = "NoSession" THEN {"signOut"}
    ELSE IF AppRenders \in {"Engineer", "UnknownRole"} THEN {"signOut", "vacation"}
    ELSE IF AppRenders = "Admin" THEN {"signOut", "adminTabs"}
    ELSE IF AppRenders = "Manager" THEN {"signOut", "managerPanels"}
    ELSE {"signOut"}

\* the controls of the rendered page: the spinner and the error page have
\* none, the not-signed-in and access-denied pages have the Sign Out button,
\* the dashboards have the header's Sign Out and their own controls; the
\* viewer dashboard is a placeholder without controls
Offered ==
    IF AppRenders \in {"Loading", "ErrorPage"} THEN {}
    ELSE IF AppRenders \in {"NoSession", "UnknownRole"} THEN {"signOut"}
    ELSE IF AppRenders = "Engineer" THEN {"signOut", "vacation"}
    ELSE IF AppRenders = "Admin" THEN {"signOut", "adminTabs"}
    ELSE IF AppRenders = "Manager" THEN {"signOut", "managerPanels"}
    ELSE {"signOut"}

\* EngineerView is mounted exactly while the router shows it
RouterSettled == (ev # Unmounted) <=> (AppRenders = "Engineer")

\* React renders after a state change: EngineerView is mounted with fresh
\* state or unmounted; the writes an unmounted view awaits stay in flight
RouterRender ==
    /\ ~RouterSettled
    /\ ev' = IF AppRenders = "Engineer" THEN EvInit ELSE Unmounted
    /\ inflight' = [i \in DOMAIN inflight |-> [inflight[i] EXCEPT !.comp = "unmounted"]]
    /\ UNCHANGED <<users, skills, sessVars, appVars, budget, cache, skillCache, exceptEv, trip>>

\* the write of an unmounted view is applied by the store
UnmountedWriteOk(i) ==
    /\ inflight[i].comp = "unmounted"
    /\ FirstOfSession(i)
    /\ CanCommit(inflight[i])
    /\ users' = Commit(inflight[i])
    /\ inflight' = RemoveAt(inflight, i)
    /\ trip' = TripAfter(inflight[i])
    /\ UNCHANGED <<skills, sessVars, appVars, budget, cache, skillCache, compVars>>

\* ... or rejected
UnmountedWriteFail(i) ==
    /\ inflight[i].comp = "unmounted"
    /\ FirstOfSession(i)
    /\ inflight' = RemoveAt(inflight, i)
    /\ UNCHANGED <<users, skills, sessVars, appVars, budget, cache, skillCache, compVars, trip>>

\* a page load whose two collections have delivered their first snapshot
InitRouted ==
    /\ \E r \in AnyRole : users = [x \in {EngId} |-> UserDoc("Eve", r, NoId, <<1>>, 0, 0)]
    /\ isAuthReady = FALSE
    /\ currentUser = NoUser
    /\ authUid \in Uids \cup {NoId}
    /\ lastNotified = NoId
    /\ initialDelivered = FALSE
    /\ signInPc = "pending"
    /\ callbacks = <<>>
    /\ remoteEdits = 0
    /\ provider = ProviderInit
    /\ inflight = <<>>
    /\ budget = BudgetRoute
    /\ cache = <<>>
    /\ sra = Unmounted
    /\ skills = <<>>
    /\ skillCache = <<>>
    /\ ev = Unmounted
    /\ mvm = Unmounted
    /\ um = Unmounted
    /\ sm = Unmounted
    /\ trip = NoTrip
    /\ hooks = [HooksInit EXCEPT !.users = ListOf(users), !.usersLoading = FALSE,
                                 !.skillsLoading = FALSE]
    /\ subs = [users |-> [NewSub(NoId) EXCEPT !.last = ListOf(users), !.fresh = FALSE],
               skills |-> [NewSub(NoId) EXCEPT !.fresh = FALSE],
               usersSeen |-> TRUE, skillsSeen |-> TRUE]

NextRouted ==
    \/ RouterRender
    \/ RouterSettled /\ InitialAuthState
    \/ RouterSettled /\ \E u \in Uids : SignInOk(u)
    \/ RouterSettled /\ SignInFail
    \/ RouterSettled /\ "signOut" \in Offered /\ SignOut
    \/ RouterSettled /\ \E i \in DOMAIN callbacks : GetDocOk(i)
    \/ RouterSettled /\ \E i \in DOMAIN callbacks : GetDocFail(i)
    \/ RouterSettled /\ \E i \in DOMAIN callbacks : SetDocOk(i)
    \/ RouterSettled /\ \E i \in DOMAIN callbacks : SetDocFail(i)
    \/ RouterSettled /\ \E id \in Uids, r \in AnyRole : RemoteRoleEdit(id, r)
    \/ RouterSettled /\ \E id \in Uids : RemoteDelete(id)
    \/ RouterSettled /\ "vacation" \in Offered /\ \E d \in Dates : HandleAddVacationRequest(d)
    \/ RouterSettled /\ "vacation" \in Offered /\ \E d \in Dates : HandleRemoveVacationRequest(d)
    \/ RouterSettled /\ "vacation" \in Offered /\ EvConfirm
    \/ RouterSettled /\ "vacation" \in Offered /\ EvCancel
    \/ RouterSettled /\ \E i \in DOMAIN inflight : EvWriteOk(i)
    \/ RouterSettled /\ \E i \in DOMAIN inflight : EvWriteFail(i)
    \/ RouterSettled /\ ev # Unmounted /\ EvTimerFires
    \/ RouterSettled /\ \E i \in DOMAIN inflight : UnmountedWriteOk(i)
    \/ RouterSettled /\ \E i \in DOMAIN inflight : UnmountedWriteFail(i)

SpecRouted == InitRouted /\ [][NextRouted]_vars

----------------------------------------------------------------------------
(* A manager session on the SR tab while administrators elsewhere edit and
   delete the members of the team *)

InitTeamStore ==
    \E t \in 0..MaxThreshold :
        users = [x \in {MgrId, "e1", "u1"} |->
                    IF x = MgrId THEN UserDoc("Max", "Manager", NoId, <<>>, 0, 0)
                    ELSE IF x = "e1" THEN UserDoc("Eve", "Engineer", MgrId, <<>>, t, 0)
                    ELSE UserDoc("New", "Engineer", MgrId, <<>>, t, 0)]

InitTeam ==
    /\ InitTeamStore
    /\ InitSignedIn
    /\ inflight = <<>>
    /\ budget = BudgetSR
    /\ cache = [s \in DashSrSessions |-> users]
    /\ sra = [s \in DashSrSessions |-> SraInit]
    /\ skills = <<>>
    /\ skillCache = <<>>
    /\ ev = Unmounted
    /\ mvm = Unmounted
    /\ um = Unmounted
    /\ sm = Unmounted
    /\ trip = NoTrip
    /\ hooks = HooksInit
    /\ subs = SubsInit

NextTeam ==
    \/ \E s \in DashSrSessions : Snapshot(s)
    \/ \E s \in DashSrSessions, id \in DOMAIN users \cup {NoId} : SelectEngineer(s, id)
    \/ \E s \in DashSrSessions : ToggleForceAssign(s)
    \/ \E s \in DashSrSessions : HandleAssignSR(s)
    \/ \E s \in DashSrSessions, id \in DOMAIN users : HandleResetSR(s, id)
    \/ \E s \in DashSrSessions : SraConfirm(s)
    \/ \E s \in DashSrSessions : SraCancel(s)
    \/ \E i \in DOMAIN inflight : SraWriteOk(i)
    \/ \E i \in DOMAIN inflight : SraWriteFail(i)
    \/ \E s \in DashSrSessions : SraTimerFires(s)
    \/ \E id \in Uids, r \in AnyRole : RemoteRoleEdit(id, r)
    \/ \E id \in Uids : RemoteDelete(id)

SpecTeam == InitTeam /\ [][NextTeam]_vars

----------------------------------------------------------------------------
(* The session provider under React.StrictMode *)

\* what React calls as the effect's cleanup: the effect calls the async
\* initializeAuth and returns nothing, so the function returned inside
\* initializeAuth is never called and no observer is unsubscribed
Cleanup(p) == p

\* a development build unmounts and mounts the provider again right after the
\* first mount: the cleanup runs and the effect runs a second time, which
\* registers another observer; the second sign-in resolves to the identity
\* of the first and notifies nobody
StrictModeRemount ==
    /\ provider.effects = 1
    /\ ~initialDelivered
    /\ signInPc = "pending"
    /\ callbacks = <<>>
    /\ provider' = [Cleanup(provider) EXCEPT !.effects = @ + 1, !.observers = @ + 1]
    /\ UNCHANGED <<users, isAuthReady, currentUser, authUid, lastNotified, initialDelivered,
                   signInPc, callbacks, remoteEdits>>
    /\ UNCHANGED <<skills, appVars, dashVars>>

\* the observer of the second run is called with the session state
SecondObserverNotify ==
    /\ provider.observers = 2
    /\ initialDelivered
    /\ provider.second # lastNotified
    /\ AuthNotify(lastNotified)
    /\ provider' = [provider EXCEPT !.second = lastNotified]
    /\ UNCHANGED <<users, authUid, lastNotified, initialDelivered, signInPc, remoteEdits>>
    /\ UNCHANGED <<skills, appVars, dashVars>>

InitStrict == InitSession

NextStrict ==
    \/ StrictModeRemount
    \/ SecondObserverNotify
    \/ InitialAuthState
    \/ \E u \in Uids : SignInOk(u)
    \/ SignInFail
    \/ SignOut
    \/ \E i \in DOMAIN callbacks : GetDocOk(i)
    \/ \E i \in DOMAIN callbacks : GetDocFail(i)
    \/ \E i \in DOMAIN callbacks : SetDocOk(i)
    \/ \E i \in DOMAIN callbacks : SetDocFail(i)
    \/ \E id \in Uids, r \in AnyRole : RemoteRoleEdit(id, r)
    \/ \E id \in Uids : RemoteDelete(id)

SpecStrict == InitStrict /\ [][NextStrict]_vars

----------------------------------------------------------------------------
(* Claims *)

SessionSettled ==
    /\ initialDelivered
    /\ signInPc # "pending"
    /\ \A i \in DOMAIN callbacks : callbacks[i].pc \in {"done", "failed"}

\* C1: in every execution of session establishment, also when the profile
\* lookup or the default-profile write fails inside the observer, readiness
\* has become true once the session work has settled.
C1_ReadyOnceSettled == SessionSettled => isAuthReady

\* C2: a resolution that finds no record writes the default Viewer profile
\* under the session's id and makes it the current user; one that finds a
\* record issues no write and takes the record's role; the store is written
\* by session resolution exactly when the lookup found no record.
C2_DefaultProfileIffAbsent ==
    [][ /\ \A i \in DOMAIN callbacks :
            LET u == callbacks[i].user IN
            /\ (callbacks[i].pc = "getDoc" /\ callbacks'[i].pc = "done") =>
                   /\ Exists(u)
                   /\ users' = users
                   /\ currentUser'.id = u
                   /\ currentUser'.role = users[u].role
            /\ (callbacks[i].pc = "getDoc" /\ callbacks'[i].pc = "setDoc") =>
                   ~Exists(u)
            /\ (callbacks[i].pc = "setDoc" /\ callbacks'[i].pc = "done") =>
                   /\ users' = SetDocument(u, DefaultUser(u))
                   /\ users'[u].role = "Viewer" /\ users'[u].managerId = NoId
                   /\ users'[u].vacationDates = <<>> /\ users'[u].skills = <<>>
                   /\ users'[u].srThreshold = 0 /\ users'[u].currentSrCount = 0
                   /\ currentUser'.id = u
                   /\ currentUser'.role = "Viewer"
        /\ (users' # users /\ remoteEdits' = remoteEdits) =>
              \E i \in DOMAIN callbacks :
                  callbacks[i].pc = "setDoc" /\ callbacks'[i].pc = "done"
      ]_vars

C2_Witness ==
    \E i, j \in DOMAIN callbacks :
        /\ callbacks[i].pc = "done" /\ callbacks[i].user # NoId /\ callbacks[i].found
        /\ callbacks[j].pc = "done" /\ callbacks[j].user # NoId /\ ~callbacks[j].found
        /\ currentUser.id = callbacks[j].user
        /\ currentUser.role = "Viewer"
        /\ Exists(callbacks[j].user)
        /\ users[callbacks[j].user] = DefaultUser(callbacks[j].user)

\* the write a step has just sent, if it sent one
Sent == Len(inflight') = Len(inflight) + 1 /\ SubSeq(inflight', 1, Len(inflight)) = inflight

LastSent == inflight'[Len(inflight')]

\* C3: with the force flag off and count >= threshold, Assign SR sends no
\* write and opens the confirmation; accepting it sends exactly one write,
\* which sets currentSrCount to the observed count + 1; with the force flag
\* on, Assign SR sends that one write and opens no confirmation.
C3_AssignGate ==
    [][ \A s \in SrSessions :
          LET sel == sra[s].selectedEngineerId IN
          /\ (HandleAssignSR(s) /\ sel \in MyTeam(s)) =>
                LET e == Engineer(s, sel) IN
                IF ~sra[s].isForceAssign /\ e.currentSrCount >= e.srThreshold
                THEN /\ inflight' = inflight
                     /\ users' = users
                     /\ sra'[s].isModalOpen
                     /\ sra'[s].modalAction.kind = "assign"
                ELSE /\ Sent
                     /\ LastSent.id = sel
                     /\ LastSent.data = [currentSrCount |-> e.currentSrCount + 1]
                     /\ ~sra'[s].isModalOpen
          /\ (SraConfirm(s) /\ sra[s].modalAction.kind = "assign") =>
                LET e == sra[s].modalAction.engineer IN
                /\ Sent
                /\ LastSent.id = e.id
                /\ LastSent.data = [currentSrCount |-> e.currentSrCount + 1]
          /\ \A i \in DOMAIN inflight :
                (SraWriteOk(i) /\ inflight[i].kind = "assign") =>
                    users' = SetDocument(inflight[i].id,
                                [users[inflight[i].id] EXCEPT
                                    !.currentSrCount = inflight[i].engineer.currentSrCount + 1])
      ]_vars

C3_Witness ==
    \E s \in SrSessions :
        /\ sra[s].modalAction.kind = "assign"
        /\ sra[s].sent = 1
        /\ sra[s].message = "SR assigned"
        /\ sra[s].modalAction.engineer.currentSrCount = sra[s].modalAction.engineer.srThreshold
        /\ users["e1"].currentSrCount = users["e1"].srThreshold + 1

\* C9: one opening of a confirmation gate sends at most one write, however
\* often Confirm is pressed while the write is pending.
C9_OneWritePerGate == \A s \in SrSessions : sra[s].sent <= 1

\* C4: a confirmed add of date d for a user whose stored vacationDates S does
\* not hold d leaves the store with S and d, in ascending order: every date
\* already stored is retained, for each add of a dashboard session.
C4_AddRetainsStored ==
    [][\A i \in DOMAIN inflight :
          (/\ EvWriteOk(i)
           /\ inflight[i].kind = "addVac"
           /\ ~Includes(users[EngId].vacationDates, inflight[i].date))
          => users'[EngId].vacationDates =
                WithSorted(users[EngId].vacationDates, inflight[i].date)]_vars

\* C6: an add of a date the user's stored vacationDates already holds issues
\* no write: Confirm never sends an add of a date that is stored.
C6_DuplicateAddNoWrite ==
    [][(EvConfirm /\ ev.modalAction.kind = "addVac")
          => ~Includes(users[EngId].vacationDates, ev.modalAction.date)]_vars

\* C7: a confirmed add of d to a stored sequence without d, followed by a
\* confirmed remove of d, returns the stored sequence to its value before
\* the add.
C7_AddRemoveRoundTrip ==
    [][\A i \in DOMAIN inflight :
          (/\ EvWriteOk(i)
           /\ inflight[i].kind = "remVac"
           /\ trip.active
           /\ trip.date = inflight[i].date)
          => users'[EngId].vacationDates = trip.before]_vars

\* C5: in every reachable state every user's stored vacationDates holds each
\* date at most once and is in ascending order, whatever the interleaving of
\* adds and removes of the engineer, manager and admin sessions.
C5_SortedUnique == \A id \in DOMAIN users : IsAscending(users[id].vacationDates)

\* the store holds two dates after an add of the engineer's dashboard and a
\* save of the admin's form were both applied
C5_Witness ==
    /\ ev.message = "Vacation request submitted successfully!"
    /\ um.message = "User updated successfully!"
    /\ Len(users[EngId].vacationDates) >= 2

\* the confirmation modal of write w's component is open for w's action
GateOpenFor(w) ==
    IF w.comp = "sra"
    THEN /\ sra[w.sess].isModalOpen
         /\ sra[w.sess].modalAction = [kind |-> w.kind, engineer |-> w.engineer]
         /\ SraConfirm(w.sess)
    ELSE IF w.comp = "ev"
    THEN /\ ev.isModalOpen
         /\ ev.modalAction = [kind |-> w.kind, date |-> w.date]
         /\ EvConfirm
    ELSE IF w.comp = "mvm"
    THEN /\ mvm[w.sess].isModalOpen
         /\ mvm[w.sess].modalAction.kind = w.kind
         /\ mvm[w.sess].modalAction.engineer.id = w.id
         /\ mvm[w.sess].modalAction.date = w.date
         /\ MvmConfirm(w.sess)
    ELSE IF w.comp = "um"
    THEN /\ um.isDeleteModalOpen
         /\ um.userToDelete.id = w.id
         /\ ConfirmDeleteUser
    ELSE /\ sm.isDeleteModalOpen
         /\ sm.skillToDelete.id = w.id
         /\ ConfirmDeleteSkill

\* delete user, delete skill, SR reset, vacation add and remove, and an SR
\* assignment at or over the threshold with the force flag off
IsGatedWrite(w) ==
    \/ w.kind \in {"deleteUser", "deleteSkill", "reset", "addVac", "remVac"}
    \/ /\ w.kind = "assign"
       /\ ~sra[w.sess].isForceAssign
       /\ w.engineer.currentSrCount >= w.engineer.srThreshold

CancelPressed ==
    \/ \E s \in DOMAIN sra : SraCancel(s)
    \/ EvCancel
    \/ \E s \in DOMAIN mvm : MvmCancel(s)
    \/ CancelDeleteUser
    \/ CancelDeleteSkill

ErrorTexts ==
    {"Error assigning SR", "Error resetting SR count",
     "Error submitting vacation request", "Error removing vacation request",
     "Error adding vacation", "Error removing vacation",
     "Error saving user", "Error deleting user",
     "Error adding skill", "Error updating skill", "Error deleting skill"}

\* the status message the component of write w shows after the step
StatusShown(w) ==
    IF w.comp = "sra" THEN sra'[w.sess].message
    ELSE IF w.comp = "ev" THEN ev'.message
    ELSE IF w.comp = "mvm" THEN mvm'[w.sess].modalMessage
    ELSE IF w.comp = "um" THEN um'.message
    ELSE sm'.message

Rejected(i) ==
    \/ SraWriteFail(i)
    \/ EvWriteFail(i)
    \/ MvmWriteFail(i)
    \/ UmWriteFail(i)
    \/ SmWriteFail(i)

\* C10: when the store rejects the write of a mutation action, the component
\* shows its error message, no further write is sent, and neither sending
\* the write nor its rejection changes the store or the cached lists.
C10_RejectedWrite ==
    [][/\ \A i \in DOMAIN inflight :
             Rejected(i) =>
                /\ StatusShown(inflight[i]) \in ErrorTexts
                /\ inflight' = RemoveAt(inflight, i)
                /\ users' = users /\ skills' = skills
                /\ cache' = cache /\ skillCache' = skillCache
       /\ Sent => /\ users' = users /\ skills' = skills
                  /\ cache' = cache /\ skillCache' = skillCache
      ]_vars

\* the save of the admin's form was rejected: the form is still open, the
\* error is shown, nothing is in flight and the store is as it was loaded
C10_Witness ==
    /\ um.message = "Error saving user"
    /\ um.showAddEditModal
    /\ inflight = <<>>
    /\ \A s \in DOMAIN cache : cache[s] = users

\* C11: every status message a mutation action shows, for a success or for a
\* failure, is eventually cleared without user interaction; here for the
\* failure messages of SRAssignment.
C11_MessageTransient ==
    \A s \in SrSessions :
        (sra[s].message \in ErrorTexts) ~> (sra[s].message \notin ErrorTexts)

\* C12: Reset SR sends nothing until its confirmation is accepted; the
\* accepted reset sends one write of currentSrCount = 0 for the chosen
\* engineer whatever the count was, and applying it changes no other field
\* of that record and no other record.
C12_ResetFrame ==
    [][\A s \in SrSessions :
          /\ (\E id \in DOMAIN users : HandleResetSR(s, id)) =>
                (inflight' = inflight /\ users' = users)
          /\ (Sent /\ LastSent.sess = s /\ LastSent.kind = "reset") =>
                /\ sra[s].isModalOpen
                /\ sra[s].modalAction.kind = "reset"
                /\ SraConfirm(s)
                /\ LastSent.id = sra[s].modalAction.engineer.id
                /\ LastSent.data = [currentSrCount |-> 0]
          /\ \A i \in DOMAIN inflight :
                (SraWriteOk(i) /\ inflight[i].kind = "reset") =>
                    users' = SetDocument(inflight[i].id,
                                [users[inflight[i].id] EXCEPT !.currentSrCount = 0])
      ]_vars

\* a reset has been applied to a record whose count was 1, as the session's
\* cache still shows, and whose threshold is 1
C12_Witness ==
    \E s \in SrSessions :
        /\ sra[s].message = "SR count reset"
        /\ Exists("e1")
        /\ users["e1"].currentSrCount = 0
        /\ users["e1"].srThreshold = 1
        /\ "e1" \in DOMAIN cache[s]
        /\ cache[s]["e1"].currentSrCount = 1

\* both caches have received a snapshot or an error, and no error slot is set
CachesLoaded ==
    /\ ~hooks.usersLoading /\ ~hooks.skillsLoading
    /\ hooks.usersError = NoId /\ hooks.skillsError = NoId

\* C13 as stated: whenever currentUser is null the App shows the NoSession
\* page, for every state of the Users and Skills caches.
C13_NoSessionAlways == (currentUser = NoUser) => (AppRenders = "NoSession")

\* C13, amended: whenever currentUser is null, readiness is true, and both
\* caches have loaded without an error, the App shows the NoSession page,
\* whatever records the caches hold; while readiness is false or a cache is
\* loading it shows the spinner, and with an error slot set the error page.
C13_NoSessionWhenLoaded ==
    (currentUser = NoUser) =>
        /\ RenderView = "NoSession"
        /\ (isAuthReady /\ CachesLoaded) => AppRenders = "NoSession"
        /\ (~isAuthReady \/ hooks.usersLoading \/ hooks.skillsLoading)
              => AppRenders = "Loading"
        /\ (isAuthReady /\ ~hooks.usersLoading /\ ~hooks.skillsLoading /\ ~CachesLoaded)
              => AppRenders = "ErrorPage"

\* no current user, the users cache holds records, and NoSession is shown
C13_Witness ==
    /\ currentUser = NoUser
    /\ hooks.users # <<>>
    /\ AppRenders = "NoSession"

\* C14: the view the router selects is a function of the current user's
\* role: Admin, Manager, Engineer and Viewer select the dashboard of that
\* name; any other role value, a missing role included, selects UnknownRole
\* and the App never shows a dashboard for it.
C14_RouterByRole ==
    (currentUser # NoUser) =>
        /\ (currentUser.role = "Admin") => RenderView = "Admin"
        /\ (currentUser.role = "Manager") => RenderView = "Manager"
        /\ (currentUser.role = "Engineer") => RenderView = "Engineer"
        /\ (currentUser.role = "Viewer") => RenderView = "Viewer"
        /\ (currentUser.role \notin {"Admin", "Manager", "Engineer", "Viewer"})
              => (RenderView = "UnknownRole" /\ AppRenders \notin Roles)
        /\ (isAuthReady /\ CachesLoaded) => AppRenders = RenderView

\* a current user without a role field is shown the UnknownRole page
C14_Witness ==
    /\ currentUser # NoUser
    /\ currentUser.role = NoRole
    /\ AppRenders = "UnknownRole"

\* C15: once a change of the current user's role in the store has been
\* delivered by the users subscription, the router shows the state of the
\* new role, without a new sign-in.
C15_RoleEditMovesRouter ==
    (/\ SessionSettled
     /\ currentUser # NoUser
     /\ Exists(currentUser.id)
     /\ subs.users.status = "active"
     /\ ~subs.users.fresh
     /\ subs.users.last = ListOf(users))
    => RenderView = (IF users[currentUser.id].role \in Roles
                     THEN users[currentUser.id].role ELSE "UnknownRole")

\* C16: for each cache, loading is true from the start until the first
\* snapshot or the first subscription error has arrived and false from then
\* on; a subscription error sets the error slot, clears loading, leaves the
\* cached records as they were and is not retried: the failed listener is
\* not attached again (a new users subscription is made only by the effect
\* that follows a change of the current user's id).
C16_LoadingAndError ==
    [][/\ hooks.usersLoading = ~subs.usersSeen
       /\ hooks.skillsLoading = ~subs.skillsSeen
       /\ hooks'.usersLoading = ~subs'.usersSeen
       /\ hooks'.skillsLoading = ~subs'.skillsSeen
       /\ UsersError =>
             /\ hooks'.usersError # NoId
             /\ ~hooks'.usersLoading
             /\ hooks'.users = hooks.users
             /\ subs'.users.status = "failed"
             /\ hooks'.skills = hooks.skills /\ hooks'.skillsError = hooks.skillsError
       /\ SkillsError =>
             /\ hooks'.skillsError # NoId
             /\ ~hooks'.skillsLoading
             /\ hooks'.skills = hooks.skills
             /\ subs'.skills.status = "failed"
             /\ hooks'.users = hooks.users /\ hooks'.usersError = hooks.usersError
       /\ (subs.users.status = "failed" /\ subs'.users.status = "active")
             => (UsersResubscribe /\ subs.users.uid # currentUser.id)
       /\ (subs.skills.status = "failed") => (subs'.skills.status = "failed")
      ]_vars

\* the users subscription failed after it had delivered records: the error
\* slot is set, loading is off and the records are still cached
C16_Witness ==
    /\ hooks.usersError # NoId
    /\ ~hooks.usersLoading
    /\ hooks.users # <<>>
    /\ subs.users.status = "failed"

\* C17: in every reachable state the Users cache is the role/name-sorted
\* content of the snapshot delivered last (empty before the first) and the
\* Skills cache is the skills snapshot delivered last; a cache changes only
\* in its snapshot callback, which replaces the whole sequence by the
\* content of the collection, and no dashboard action changes a cache.
C17_CacheIsLastSnapshot ==
    [][/\ hooks.users \in SortOutcomes(subs.users.last)
       /\ hooks.skills = subs.skills.last
       /\ hooks'.users \in SortOutcomes(subs'.users.last)
       /\ hooks'.skills = subs'.skills.last
       /\ (hooks'.users # hooks.users) =>
             (UsersSnapshot /\ hooks'.users \in SortOutcomes(ListOf(users)))
       /\ (hooks'.skills # hooks.skills) =>
             (SkillsSnapshot /\ hooks'.skills = ListOf(skills))
       /\ \A s \in DOMAIN cache :
             (cache'[s] # cache[s]) => (Snapshot(s) /\ cache'[s] = users)
       /\ (skillCache' # skillCache) => (SkillSnapshot /\ skillCache' = skills)
      ]_vars

\* the admin added a user, and the App's caches hold the users snapshot
\* with the new record and the skills snapshot
C17_Witness ==
    /\ Len(hooks.users) = 3
    /\ hooks.skills # <<>>
    /\ um.message = "User added successfully!"

\* the position of a cached record in the snapshot delivered last
SnapshotIndex(r) == CHOOSE i \in DOMAIN subs.users.last : subs.users.last[i] = r

RoleRank(role) ==
    IF role = "Admin" THEN 0 ELSE IF role = "Manager" THEN 1
    ELSE IF role = "Engineer" THEN 2 ELSE 3

\* C18: after every users snapshot the cached sequence holds the snapshot's
\* records so that of two records with different roles of the enumeration
\* the one of lower rank (Admin < Manager < Engineer < Viewer) comes first,
\* records of equal role are in ascending order of name, and records of
\* equal role and name are in their order in the snapshot.
C18_SortTotalStable ==
    /\ Elements(hooks.users) = Elements(subs.users.last)
    /\ Len(hooks.users) = Len(subs.users.last)
    /\ \A i, j \in DOMAIN hooks.users :
          i < j =>
             LET a == hooks.users[i]
                 b == hooks.users[j]
             IN /\ (a.role \in Roles /\ b.role \in Roles /\ a.role # b.role)
                      => RoleRank(a.role) < RoleRank(b.role)
                /\ (a.role = b.role) => NameKey(a.name) <= NameKey(b.name)
                /\ (a.role = b.role /\ a.name = b.name)
                      => SnapshotIndex(a) < SnapshotIndex(b)

RoleBuckets ==
    <<[of |-> managers(hooks.users), roles |-> {"Manager"}],
      [of |-> engineersAndViewers(hooks.users), roles |-> {"Engineer", "Viewer"}],
      [of |-> otherUsers(hooks.users), roles |-> {"Admin"}]>>

\* C20: the role filters of the dashboards partition the cached users into
\* role buckets: every cached record is in exactly one bucket, a bucket
\* holds only records of its role, and no bucket holds a record twice.
C20_RolePartition ==
    /\ \A i \in DOMAIN hooks.users :
          Cardinality({b \in DOMAIN RoleBuckets :
                          hooks.users[i] \in Elements(RoleBuckets[b].of)}) = 1
    /\ \A b \in DOMAIN RoleBuckets :
          /\ \A k \in DOMAIN RoleBuckets[b].of :
                RoleBuckets[b].of[k].role \in RoleBuckets[b].roles
          /\ Cardinality(Elements(RoleBuckets[b].of)) = Len(RoleBuckets[b].of)

\* the cached users who are Admins, or are not Managers and have no manager
UnassignedOrAdmins ==
    SelectSeq(hooks.users,
              LAMBDA u : u.role = "Admin" \/ (u.role # "Manager" /\ u.managerId \in {NoId, ""}))

\* C21 as stated: for every cache the other-users section of the roster holds
\* exactly the cached Admins and the cached non-Managers without managerId.
C21_OtherUsersAlways ==
    ~hooks.usersLoading => OverallRosterView(hooks.users).others = UnassignedOrAdmins

\* C21: whenever the roster renders its sections (some cached user is a
\* Manager, an Engineer or a Viewer), the other-users section holds, in
\* cache order, exactly the cached users who are Admins or who are not
\* Managers and have managerId null, empty or missing; no Manager without
\* managerId is in it.
C21_OtherUsersWhenRendered ==
    (~hooks.usersLoading /\ ~OverallRosterView(hooks.users).empty) =>
        LET others == OverallRosterView(hooks.users).others IN
        /\ others = UnassignedOrAdmins
        /\ \A k \in DOMAIN others : others[k].role # "Manager"

\* a rendered roster whose cache holds a Manager without managerId, an Admin
\* with a manager and an Engineer whose managerId is the empty string
C21_Witness ==
    /\ ~hooks.usersLoading
    /\ ~OverallRosterView(hooks.users).empty
    /\ \E i, j, k \in DOMAIN hooks.users :
          /\ hooks.users[i].role = "Manager" /\ hooks.users[i].managerId = NoId
          /\ hooks.users[j].role = "Admin" /\ hooks.users[j].managerId = MgrId
          /\ hooks.users[k].role = "Engineer" /\ hooks.users[k].managerId = ""
    /\ Len(OverallRosterView(hooks.users).others) = 2

\* C22: for a selected engineer whose threshold is 0, Assign SR with the
\* force flag off sends no write and opens the confirmation, whatever the
\* count; every assignment in flight for a threshold-0 engineer is a forced
\* one or one sent by the confirmation.
C22_ThresholdZeroBlocks ==
    [][/\ \A s \in SrSessions :
            LET sel == sra[s].selectedEngineerId IN
            (/\ HandleAssignSR(s)
             /\ sel \in MyTeam(s)
             /\ Engineer(s, sel).srThreshold = 0
             /\ ~sra[s].isForceAssign)
            => /\ inflight' = inflight
               /\ users' = users
               /\ sra'[s].isModalOpen
               /\ sra'[s].modalAction = [kind |-> "assign", engineer |-> Engineer(s, sel)]
       /\ \A i \in DOMAIN inflight' :
            (inflight'[i].kind = "assign" /\ inflight'[i].engineer.srThreshold = 0)
            => inflight'[i].force
      ]_vars

\* the confirmation is open for a non-forced assignment to a threshold-0
\* engineer whose count is already 1
C22_Witness ==
    \E s \in SrSessions :
        /\ sra[s].isModalOpen
        /\ ~sra[s].isForceAssign
        /\ sra[s].modalAction.kind = "assign"
        /\ sra[s].modalAction.engineer.srThreshold = 0
        /\ sra[s].modalAction.engineer.currentSrCount = 1
        /\ sra[s].sent = 0

DeadEnd == AppRenders \in {"NoSession", "UnknownRole"}

\* C23: while the router shows the not-signed-in page or the access-denied
\* page the only control offered is Sign Out, pressing it leaves the router
\* on the not-signed-in page, and no step taken from such a state sends a
\* write to the store.
C23_DeadEnds ==
    [][DeadEnd =>
          /\ Offered = {"signOut"}
          /\ SignOut => AppRenders' = "NoSession"
          /\ Len(inflight') <= Len(inflight)
      ]_vars

\* the access-denied page was left by Sign Out: a user whose role the
\* enumeration does not hold is resolved, and the session is signed out
C23_Witness ==
    /\ AppRenders = "NoSession"
    /\ authUid = NoId
    /\ \E i, j \in DOMAIN callbacks :
          /\ i < j
          /\ callbacks[i].pc = "done" /\ callbacks[i].found
          /\ users[callbacks[i].user].role \notin Roles
          /\ callbacks[j].user = NoId

\* a record the cache held as a member of the manager's team
TeamRecord(e) == e.role = "Engineer" /\ e.managerId = MgrId

\* C24: every SR assignment or reset the manager dashboard has in flight,
\* and every one waiting in the confirmation, is for the record the cache
\* held as an Engineer of this manager when Assign SR or Reset was pressed;
\* Assign SR for a selected id that is not in the team sends no write, opens
\* no confirmation and shows that the engineer was not found.
C24_WritesOnlyToTeam ==
    [][\A s \in DashSrSessions :
          LET sel == sra[s].selectedEngineerId IN
          /\ (HandleAssignSR(s) /\ sel \notin MyTeam(s))
               => /\ inflight' = inflight
                  /\ ~sra'[s].isModalOpen
                  /\ sra'[s].message = "Selected engineer not found."
          /\ (HandleAssignSR(s) /\ Sent)
               => /\ LastSent.id \in MyTeam(s)
                  /\ LastSent.engineer = Engineer(s, LastSent.id)
          /\ ((HandleAssignSR(s) \/ \E id \in DOMAIN users : HandleResetSR(s, id))
                 /\ sra'[s].isModalOpen)
               => /\ sra'[s].modalAction.engineer.id \in MyTeam(s)
                  /\ sra'[s].modalAction.engineer = Engineer(s, sra'[s].modalAction.engineer.id)
          /\ (SraConfirm(s) /\ Sent)
               => /\ LastSent.engineer = sra[s].modalAction.engineer
                  /\ LastSent.id = sra[s].modalAction.engineer.id
          /\ \A i \in DOMAIN inflight' :
                /\ TeamRecord(inflight'[i].engineer)
                /\ inflight'[i].id = inflight'[i].engineer.id
      ]_vars

\* the selected engineer left the team before Assign SR was pressed
C24_Witness ==
    \E s \in DashSrSessions :
        /\ sra[s].message = "Selected engineer not found."
        /\ sra[s].selectedEngineerId \notin MyTeam(s)
        /\ inflight = <<>>

\* the calls of the observers that went on to create the default profile of u
ProfileCreations(u) ==
    {i \in DOMAIN callbacks :
        /\ callbacks[i].user = u
        /\ \/ callbacks[i].pc = "setDoc"
           \/ callbacks[i].pc = "done" /\ ~callbacks[i].found}

\* C25: the provider has one active observer, also after React.StrictMode
\* has unmounted and mounted it again, and the default profile of an
\* identity, unless another session deletes it, is created by at most one
\* call of an observer.
C25_ObserverCleanup ==
    /\ provider.observers = 1
    /\ remoteEdits = 0 => \A u \in Uids : Cardinality(ProfileCreations(u)) <= 1

\* C26: once every call of the observer has completed without a rejected
\* lookup or write, currentUser is that of the session-change event that
\* came last: null after a sign-out, else the user of the last identity.
C26_LastEventWins ==
    (/\ initialDelivered
     /\ signInPc # "pending"
     /\ \A i \in DOMAIN callbacks : callbacks[i].pc = "done")
    => currentUser.id = callbacks[Len(callbacks)].user

\* C27: when the store applies the save of an edit of an existing user, the
\* stored currentSrCount of that user stays what it was, so an assignment or
\* reset applied since the form was opened remains in effect.
C27_SaveKeepsSrCount ==
    [][\A i \in DOMAIN inflight :
          (UmWriteOk(i) /\ inflight[i].kind = "saveUser" /\ inflight[i].op = "update")
          => users'[inflight[i].id].currentSrCount = users[inflight[i].id].currentSrCount
      ]_vars

\* the roster shows u: as the header of a Manager section, in the team table
\* of exactly one section, or in the table of the other users
ShownInRoster(view, u) ==
    \/ \E i \in DOMAIN view.sections : view.sections[i].manager = u
    \/ Cardinality({i \in DOMAIN view.sections : u \in Elements(view.sections[i].team)}) = 1
    \/ u \in Elements(view.others)

\* C28: whenever the roster renders its sections, every cached user is shown
\* in it, also an Engineer or Viewer whose managerId is the id of no cached
\* Manager.
C28_RosterShowsEveryUser ==
    (~hooks.usersLoading /\ ~OverallRosterView(hooks.users).empty) =>
        \A i \in DOMAIN hooks.users :
            ShownInRoster(OverallRosterView(hooks.users), hooks.users[i])

\* C29: an error slot that is set stays set with its text, whatever the hooks
\* receive afterwards, and once the App renders the error page it renders it
\* in every later state.
C29_ErrorNeverCleared ==
    [][/\ hooks.usersError # NoId => hooks'.usersError = hooks.usersError
       /\ hooks.skillsError # NoId => hooks'.skillsError = hooks.skillsError
       /\ AppRenders = "ErrorPage" => AppRenders' = "ErrorPage"
      ]_vars

\* the users subscription failed, was opened again for the resolved user and
\* has delivered the records of the store; the error page is still rendered
C29_Witness ==
    /\ hooks.usersError # NoId
    /\ subs.users.status = "active"
    /\ subs.users.uid = currentUser.id
    /\ currentUser.id # NoId
    /\ ~subs.users.fresh
    /\ hooks.users # <<>>
    /\ Elements(hooks.users) = Elements(ListOf(users))
    /\ AppRenders = "ErrorPage"

\* the messages SRAssignment sets together with a clear timer
SraSuccessTexts == {"SR assigned", "SR count reset"}

\* C30: a clear timer that fires while a message is shown is the timer that
\* was started with that message: the message is one set together with a
\* timer, and no timer of an earlier message is still pending.
C30_OwnTimerClears ==
    [][\A s \in SrSessions :
          (SraTimerFires(s) /\ sra[s].message # "")
          => /\ sra[s].message \in SraSuccessTexts
             /\ sra[s].timers = 1
      ]_vars

====
